---- MODULE Spec2Model ----
(***************************************************************************)
(* Model of the monthly shift generator generateSchedule of                *)
(* src/scheduler.js (latest revision, lines 1611-2734).                    *)
(*                                                                         *)
(* One run of generateSchedule is a behaviour: Init is the table after     *)
(* phase 0 (every cell OFF), each action is one iteration of a phase's     *)
(* outer loop, and pc = "done" is the return of {assignments, warnings}.   *)
(* Staff are named by their position in staffList.  Every shuffle and      *)
(* every Math.random() draw is a nondeterministic choice.                  *)
(***************************************************************************)
EXTENDS Integers, Sequences, FiniteSets

VARIABLES
    staffList,            \* the roster (records are mutated by phase 3)
    requests,             \* staff -> set of requested-off days
    settings,             \* s = {...DEFAULT_SETTINGS, ...settings}
    firstDow,             \* getDayOfWeek(year, month, 1): 0 = Sunday
    pc,                   \* phase of the run
    day,                  \* loop variable of the per-day phases
    idx,                  \* loop variable of the per-staff phases / iter of 3.5
    allAssignments,       \* staff -> day -> shift
    consecutivePlus1Used, \* staff -> number of +1 overruns marked
    sundayReducedCount,   \* Sundays filled against the reduced floor
    warnings,             \* the warnings list
    newShift              \* argument of getShiftChangeWarnings: the probed shift

vars == <<staffList, requests, settings, firstDow, newShift, pc, day, idx,
          allAssignments, consecutivePlus1Used, sundayReducedCount, warnings>>

----------------------------------------------------------------------------
(* Bounds of the model *)

\* getDaysInMonth(year, month) of the month that is generated (February).
DaysInMonth == 28

----------------------------------------------------------------------------
(* Constants of the program *)

EARLY == "early"
LATE == "late"
NIGHT == "night"
NIGHT_OFF == "nightOff"
OFF == "off"
OVERTIME == "overtime"
PART == "part"

SHIFT_TYPES == {EARLY, LATE, NIGHT, NIGHT_OFF, OFF, OVERTIME, PART}

SHIFT_TIME_RANGES ==
    [sh \in {EARLY, LATE, OVERTIME, NIGHT, NIGHT_OFF} |->
        CASE sh = EARLY -> [start |-> 420, end |-> 960]
          [] sh = LATE -> [start |-> 570, end |-> 1110]
          [] sh = OVERTIME -> [start |-> 420, end |-> 1110]
          [] sh = NIGHT -> [start |-> 1020, end |-> 1440]
          [] sh = NIGHT_OFF -> [start |-> 0, end |-> 540]]

TIME_CHECKPOINTS ==
    << [minutes |-> 420, required |-> 4, sundayRequired |-> 4, sundayMin |-> 3],
       [minutes |-> 600, required |-> 4, sundayRequired |-> 4, sundayMin |-> 3],
       [minutes |-> 1065, required |-> 4, sundayRequired |-> 4, sundayMin |-> 4] >>

MornMinutes == 420
NoonMinutes == 600
EveMinutes == 1065
FloorRequired == 4
SundayFloor == 3
MAX_SUNDAY_REDUCED == 3
MAX_OT_PER_PERSON == 6
TARGET_OT == 5
MAX_CONSECUTIVE_PLUS1 == 2
DefaultDaysOff == 9
DefaultMaxPerWeek == 3
MaxIter35 == 20

DEFAULT_SETTINGS ==
    [earlyRequired |-> 3, lateRequired |-> 3, nightRequired |-> 1,
     sundayEarlyRequired |-> 3, sundayLateRequired |-> 2,
     sundayNightRequired |-> 1, maxConsecutive |-> 5]

Days == 1..DaysInMonth

----------------------------------------------------------------------------
(* Generic helpers *)

Max2(a, b) == IF a >= b THEN a ELSE b
Min2(a, b) == IF a <= b THEN a ELSE b

MinOf(S) == CHOOSE m \in S : \A e \in S : m <= e

\* All orders of the finite set S.
Perms(S) ==
    {f \in [1..Cardinality(S) -> S] :
        \A i, j \in 1..Cardinality(S) : i # j => f[i] # f[j]}

\* Array.prototype.sort with a comparator applied to a shuffled array: every
\* order of S in which no element is followed by one that the comparator
\* puts strictly before it. cmp[<<x, y>>] is the comparator's value on (x, y).
SortedOrders(S, cmp) ==
    {f \in Perms(S) :
        \A i, j \in 1..Cardinality(S) : i < j => cmp[<<f[i], f[j]>>] <= 0}

----------------------------------------------------------------------------
(* Time and calendar *)

\* "HH:MM" is held as <<HH, MM>>, the empty string as <<>>.
timeToMinutes(timeStr) ==
    IF timeStr = <<>> THEN -1 ELSE timeStr[1] * 60 + timeStr[2]

isStaffPresentAt(staff, shift, checkMinutes) ==
    IF shift = OFF THEN FALSE
    ELSE IF shift = PART /\ staff.startTime # <<>> /\ staff.endTime # <<>>
    THEN checkMinutes >= timeToMinutes(staff.startTime)
         /\ checkMinutes < timeToMinutes(staff.endTime)
    ELSE IF shift \in DOMAIN SHIFT_TIME_RANGES
    THEN checkMinutes >= SHIFT_TIME_RANGES[shift].start
         /\ checkMinutes < SHIFT_TIME_RANGES[shift].end
    ELSE FALSE

StaffIds == 1..Len(staffList)

countStaffAtTime(a, d, checkMinutes) ==
    Cardinality({i \in StaffIds : isStaffPresentAt(staffList[i], a[i][d], checkMinutes)})

getDayOfWeek(d) == (firstDow + d - 1) % 7

isSunday(d) == getDayOfWeek(d) = 0

\* Variant of isFriSatSun that forgets Friday.
isSatSun(d) == getDayOfWeek(d) \in {0, 6}

isFriSatSun(d) == getDayOfWeek(d) \in {0, 5, 6}

----------------------------------------------------------------------------
(* Rows: consecutive runs and counts *)

IsWorkShift(sh) == sh # OFF /\ sh # NIGHT_OFF

RECURSIVE getConsecutiveWorkDays(_, _)
getConsecutiveWorkDays(assignments, d) ==
    IF d >= 1 /\ d <= DaysInMonth /\ IsWorkShift(assignments[d])
    THEN 1 + getConsecutiveWorkDays(assignments, d - 1)
    ELSE 0

RECURSIVE getForwardConsecutiveWorkDays(_, _)
getForwardConsecutiveWorkDays(assignments, d) ==
    IF d >= 1 /\ d <= DaysInMonth /\ IsWorkShift(assignments[d])
    THEN 1 + getForwardConsecutiveWorkDays(assignments, d + 1)
    ELSE 0

getStaffMaxConsecutive(staff) ==
    IF staff.maxConsecutive > 0 THEN staff.maxConsecutive
    ELSE IF staff.type # "part" /\ staff.nightShiftType # ""
            /\ staff.nightShiftType # "none"
    THEN 2
    ELSE IF settings.maxConsecutive # 0 THEN settings.maxConsecutive
    ELSE DEFAULT_SETTINGS.maxConsecutive

countShiftType(assignments, shiftType) ==
    Cardinality({d \in Days : assignments[d] = shiftType})

countWorkDays(assignments) ==
    Cardinality({d \in Days : IsWorkShift(assignments[d])})

countOffDays(assignments) ==
    Cardinality({d \in Days : assignments[d] = OFF})

getWeekWorkDays(assignments, d) ==
    LET monday == d - ((getDayOfWeek(d) + 6) % 7)
    IN Cardinality({w \in monday..(monday + 6) :
                        w >= 1 /\ w <= DaysInMonth /\ IsWorkShift(assignments[w])})

TargetOff(staff) ==
    IF staff.monthlyDaysOff # 0 THEN staff.monthlyDaysOff ELSE DefaultDaysOff

MaxPerWeek(staff) ==
    IF staff.maxDaysPerWeek # 0 THEN staff.maxDaysPerWeek ELSE DefaultMaxPerWeek

NightTypeOf(staff) ==
    IF staff.nightShiftType # "" THEN staff.nightShiftType
    ELSE IF staff.canNightShift THEN "all" ELSE "none"

----------------------------------------------------------------------------
(* Eligibility predicates *)

\* Variant of canWorkOnDay that grants the +1 overrun whatever the tracker
\* says.
canWorkOnDayUnbudgeted(i, assignments, d, plus1Used) ==
    LET maxConsecutive == getStaffMaxConsecutive(staffList[i])
        pastConsecutive == getConsecutiveWorkDays(assignments, d - 1)
        forwardConsecutive == getForwardConsecutiveWorkDays(assignments, d + 1)
        totalConsecutive == pastConsecutive + 1 + forwardConsecutive
    IN /\ assignments[d] = OFF
       /\ \/ totalConsecutive <= maxConsecutive
          \/ /\ totalConsecutive = maxConsecutive + 1
             /\ staffList[i].allowConsecutivePlus1

canWorkOnDay(i, assignments, d, plus1Used) ==
    LET maxConsecutive == getStaffMaxConsecutive(staffList[i])
        pastConsecutive == getConsecutiveWorkDays(assignments, d - 1)
        forwardConsecutive == getForwardConsecutiveWorkDays(assignments, d + 1)
        totalConsecutive == pastConsecutive + 1 + forwardConsecutive
    IN /\ assignments[d] = OFF
       /\ \/ totalConsecutive <= maxConsecutive
          \/ /\ totalConsecutive = maxConsecutive + 1
             /\ staffList[i].allowConsecutivePlus1
             /\ plus1Used[i] < MAX_CONSECUTIVE_PLUS1

\* x is the run's table with the +1 tracker: [a, p, ...].
assignShift(x, i, d, shiftType) ==
    LET maxConsecutive == getStaffMaxConsecutive(staffList[i])
        pastConsecutive == getConsecutiveWorkDays(x.a[i], d - 1)
        forwardConsecutive == getForwardConsecutiveWorkDays(x.a[i], d + 1)
        totalConsecutive == pastConsecutive + 1 + forwardConsecutive
    IN [x EXCEPT !.a[i][d] = shiftType,
                 !.p[i] = IF totalConsecutive > maxConsecutive THEN @ + 1 ELSE @]

\* Variant of canAssignNight without the test that the day itself is OFF.
canAssignNightOnAnyCell(i, assignments, d) ==
    LET staff == staffList[i]
        nightType == NightTypeOf(staff)
        maxConsecutive == getStaffMaxConsecutive(staff)
        pastConsecutive == getConsecutiveWorkDays(assignments, d - 1)
        forwardConsecutive == getForwardConsecutiveWorkDays(assignments, d + 2)
    IN /\ nightType # "none"
       /\ staff.type # "part"
       /\ ~(nightType = "weekday" /\ isFriSatSun(d))
       /\ (d + 1 <= DaysInMonth => assignments[d + 1] = OFF)
       /\ (d + 2 <= DaysInMonth => assignments[d + 2] = OFF)
       /\ pastConsecutive < maxConsecutive
       /\ pastConsecutive + 1 + forwardConsecutive <= maxConsecutive

canAssignNight(i, assignments, d) ==
    LET staff == staffList[i]
        nightType == NightTypeOf(staff)
        maxConsecutive == getStaffMaxConsecutive(staff)
        pastConsecutive == getConsecutiveWorkDays(assignments, d - 1)
        forwardConsecutive == getForwardConsecutiveWorkDays(assignments, d + 2)
    IN /\ nightType # "none"
       /\ staff.type # "part"
       /\ ~(nightType = "weekday" /\ isFriSatSun(d))
       /\ assignments[d] = OFF
       /\ (d + 1 <= DaysInMonth => assignments[d + 1] = OFF)
       /\ (d + 2 <= DaysInMonth => assignments[d + 2] = OFF)
       /\ pastConsecutive < maxConsecutive
       /\ pastConsecutive + 1 + forwardConsecutive <= maxConsecutive

\* Variant of getActualTarget that does not deduct the NIGHT_OFF days.
getActualTargetWithNightOff(a, i) == DaysInMonth - TargetOff(staffList[i])

getActualTarget(a, i) ==
    DaysInMonth - TargetOff(staffList[i]) - countShiftType(a[i], NIGHT_OFF)

getWorkGap(a, i) == getActualTarget(a, i) - countWorkDays(a[i])

----------------------------------------------------------------------------
(* Warnings: one record per message *)

Warning(kind, i, d, c, n, r) ==
    [k |-> kind, s |-> i, d |-> d, c |-> c, n |-> n, r |-> r]

NightWarning(d) == Warning("noNightStaff", 0, d, 0, 0, 0)

CoverageWarning(d, minutes, count, required) ==
    Warning("coverage", 0, d, minutes, count, required)

OffWarning(i, finalOff, targetOff) == Warning("offDays", i, 0, 0, finalOff, targetOff)

----------------------------------------------------------------------------
(* Inputs of generateSchedule: the rosters, requests, settings and months   *)
(* of the runs that are explored                                            *)

FullStaff(nightShiftType, canNightShift, canOvertime, monthlyDaysOff, maxConsecutive, allowConsecutivePlus1) ==
    [type |-> "full", nightShiftType |-> nightShiftType,
     canNightShift |-> canNightShift, canOvertime |-> canOvertime,
     earlyOnly |-> FALSE, lateOnly |-> FALSE,
     monthlyDaysOff |-> monthlyDaysOff, maxDaysPerWeek |-> 0,
     maxConsecutive |-> maxConsecutive,
     allowConsecutivePlus1 |-> allowConsecutivePlus1,
     startTime |-> <<>>, endTime |-> <<>>]

PartStaff(earlyOnly, lateOnly, monthlyDaysOff, maxDaysPerWeek, maxConsecutive, allowConsecutivePlus1, startTime, endTime) ==
    [type |-> "part", nightShiftType |-> "none", canNightShift |-> FALSE,
     canOvertime |-> FALSE, earlyOnly |-> earlyOnly, lateOnly |-> lateOnly,
     monthlyDaysOff |-> monthlyDaysOff, maxDaysPerWeek |-> maxDaysPerWeek,
     maxConsecutive |-> maxConsecutive,
     allowConsecutivePlus1 |-> allowConsecutivePlus1,
     startTime |-> startTime, endTime |-> endTime]

NoRequests(roster) == [i \in 1..Len(roster) |-> {}]

Settings(nightRequired, sundayNightRequired, maxConsecutive) ==
    [DEFAULT_SETTINGS EXCEPT !.nightRequired = nightRequired,
                             !.sundayNightRequired = sundayNightRequired,
                             !.maxConsecutive = maxConsecutive]

Scenario(roster, req, set, dow) ==
    [staff |-> roster, req |-> req, set |-> set, dow |-> dow]

\* One full-timer without nights who can work overtime (spec scenario 2).
SoloRoster ==
    << FullStaff("none", FALSE, TRUE, 9, 0, FALSE) >>

\* Two full-timers with six workdays each (the off-day target leaves six),
\* one who can work overtime and one who cannot.
OvertimeRoster ==
    << FullStaff("none", FALSE, TRUE, DaysInMonth - 6, 0, FALSE),
       FullStaff("none", FALSE, FALSE, DaysInMonth - 6, 0, FALSE) >>

\* Night workers of each capability, a legacy record, a worker without
\* overtime, and one who tolerates +1 overruns.
NightRoster ==
    << FullStaff("all", FALSE, TRUE, 7, 0, FALSE),
       FullStaff("weekday", FALSE, FALSE, 9, 0, TRUE),
       FullStaff("", TRUE, TRUE, 9, 0, FALSE) >>

\* Legacy records only: one with the night flag, one without.
LegacyRoster ==
    << FullStaff("", TRUE, FALSE, 9, 0, TRUE),
       FullStaff("", FALSE, FALSE, 9, 1, TRUE) >>

\* Part-timers: restricted to one side, with and without own hours, with the
\* work-work-off pattern (maxConsecutive <= 2) and with the greedy placement,
\* next to a full-timer without overtime.
PartRoster ==
    << PartStaff(FALSE, TRUE, 9, 0, 2, FALSE, <<>>, <<>>),
       PartStaff(TRUE, FALSE, 9, 2, 0, TRUE, <<7, 0>>, <<13, 0>>),
       FullStaff("none", FALSE, FALSE, 9, 0, FALSE) >>

\* A single part-timer who works almost every day and tolerates +1 overruns.
PlusOneRoster ==
    << PartStaff(FALSE, FALSE, 1, 7, 3, TRUE, <<9, 0>>, <<18, 0>>) >>

\* Four full-timers without nights or overtime whose off-day targets differ,
\* so that days with four, three and fewer people at a checkpoint occur
\* (after the spec's scenario 3).
FourRoster ==
    << FullStaff("none", FALSE, FALSE, 9, 0, FALSE),
       FullStaff("none", FALSE, FALSE, 10, 0, FALSE),
       FullStaff("none", FALSE, FALSE, 11, 0, FALSE),
       FullStaff("none", FALSE, FALSE, 12, 0, FALSE) >>

\* Four full-timers whose four workdays are all strategic OVERTIME, and a
\* fifth without overtime who asks for every later day off: phase 5 gives the
\* fifth LATE on the covered days, which phase 5.8 then balances.
SwapRoster ==
    << FullStaff("none", FALSE, TRUE, DaysInMonth - 4, 0, FALSE),
       FullStaff("none", FALSE, TRUE, DaysInMonth - 4, 0, FALSE),
       FullStaff("none", FALSE, TRUE, DaysInMonth - 4, 0, FALSE),
       FullStaff("none", FALSE, TRUE, DaysInMonth - 4, 0, FALSE),
       FullStaff("none", FALSE, FALSE, DaysInMonth - 4, 0, FALSE) >>

\* Five full-timers without nights or overtime whose off-day targets, and so
\* their work gaps, all differ: one more than a fill step of phase 4 takes.
FiveRoster ==
    << FullStaff("none", FALSE, FALSE, 9, 0, FALSE),
       FullStaff("none", FALSE, FALSE, 10, 0, FALSE),
       FullStaff("none", FALSE, FALSE, 11, 0, FALSE),
       FullStaff("none", FALSE, FALSE, 12, 0, FALSE),
       FullStaff("none", FALSE, FALSE, 13, 0, FALSE) >>

\* Three part-timers on the work-work-off pattern who cover all three
\* checkpoints, and two full-timers with few days off: on a Sunday phase 4
\* fills the morning against three only, and phase 5 finds the day short.
SundayRoster ==
    << PartStaff(FALSE, FALSE, 9, 7, 2, FALSE, <<7, 0>>, <<18, 0>>),
       PartStaff(FALSE, FALSE, 9, 7, 2, FALSE, <<7, 0>>, <<18, 0>>),
       PartStaff(FALSE, FALSE, 9, 7, 2, FALSE, <<7, 0>>, <<18, 0>>),
       FullStaff("none", FALSE, FALSE, 3, 0, FALSE),
       FullStaff("none", FALSE, FALSE, 4, 0, FALSE) >>

\* Two part-timers on the work-work-off pattern whose off-day targets
\* differ; the second tolerates +1 overruns and asks for two days off, which
\* leaves one day that phase 3.5 can still fill.
EqualizeRoster ==
    << PartStaff(FALSE, FALSE, 5, 7, 2, FALSE, <<9, 0>>, <<17, 0>>),
       PartStaff(FALSE, FALSE, 9, 7, 2, TRUE, <<9, 0>>, <<17, 0>>) >>

Scenarios ==
    {Scenario(SoloRoster, NoRequests(SoloRoster), DEFAULT_SETTINGS, 6)}
    \cup {Scenario(OvertimeRoster, NoRequests(OvertimeRoster), DEFAULT_SETTINGS, 6)}
    \cup {Scenario(NightRoster, req, set, 3) :
            req \in {NoRequests(NightRoster), <<{2, 3}, {0, 9}, {}>>},
            set \in {DEFAULT_SETTINGS, Settings(2, 0, 0)}}
    \cup {Scenario(LegacyRoster, <<{1}, {}>>, set, 0) :
            set \in {DEFAULT_SETTINGS, Settings(0, 1, 0)}}
    \cup {Scenario(PartRoster, <<{5}, {DaysInMonth + 1}, {}, {3}>>, DEFAULT_SETTINGS, 1)}
    \cup {Scenario(PlusOneRoster, NoRequests(PlusOneRoster), Settings(1, 1, 4), 2)}
    \cup {Scenario(FourRoster, NoRequests(FourRoster), DEFAULT_SETTINGS, 2)}
    \cup {Scenario(SwapRoster, <<{}, {}, {}, {}, 5..DaysInMonth>>, DEFAULT_SETTINGS, 1)}
    \cup {Scenario(FiveRoster, NoRequests(FiveRoster), DEFAULT_SETTINGS, 1)}
    \cup {Scenario(SundayRoster, NoRequests(SundayRoster), DEFAULT_SETTINGS, 1)}
    \cup {Scenario(EqualizeRoster, <<{}, {4, 5}>>, DEFAULT_SETTINGS, 1)}

----------------------------------------------------------------------------
(* Phase 0: blank table *)

Init ==
    \E sc \in Scenarios :
        /\ staffList = sc.staff
        /\ requests = sc.req
        /\ settings = sc.set
        /\ firstDow = sc.dow
        /\ newShift = OFF
        /\ pc = "phase2"
        /\ day = 1
        /\ idx = 1
        /\ allAssignments = [i \in 1..Len(sc.staff) |-> [d \in Days |-> OFF]]
        /\ consecutivePlus1Used = [i \in 1..Len(sc.staff) |-> 0]
        /\ sundayReducedCount = 0
        /\ warnings = <<>>

\* requestedDays[staff.id].has(d)
requestedDays(i, d) == d \in requests[i]

----------------------------------------------------------------------------
(* Phase 2: nights and the morning after *)

nightEligible ==
    {i \in StaffIds : NightTypeOf(staffList[i]) # "none" /\ staffList[i].type # "part"}

\* allAssignments[id][day] = shift on a row object: the write of a key the
\* row does not have adds the key.
setCell(row, d, shift) ==
    [e \in (DOMAIN row) \cup {d} |-> IF e = d THEN shift ELSE row[e]]

\* Variant of NightStep that writes the NIGHT_OFF without testing that the
\* next day is inside the month.
NightStepPastMonthEnd(x, d) ==
    LET candidates == {i \in nightEligible : canAssignNight(i, x.a[i], d)}
        nightCount(i) == countShiftType(x.a[i], NIGHT)
        topCandidates ==
            {i \in candidates : \A j \in candidates : nightCount(i) <= nightCount(j)}
    IN IF candidates = {}
       THEN {[x EXCEPT !.w = Append(@, NightWarning(d))]}
       ELSE {[x EXCEPT !.a[chosen] = setCell(setCell(@, d, NIGHT), d + 1, NIGHT_OFF)]
             : chosen \in topCandidates}

\* Variant of NightStep that draws from every candidate, whatever the count.
NightStepAnyCandidate(x, d) ==
    LET candidates == {i \in nightEligible : canAssignNight(i, x.a[i], d)}
    IN IF candidates = {}
       THEN {[x EXCEPT !.w = Append(@, NightWarning(d))]}
       ELSE {[x EXCEPT !.a[chosen] =
                  IF d + 1 <= DaysInMonth
                  THEN setCell(setCell(@, d, NIGHT), d + 1, NIGHT_OFF)
                  ELSE setCell(@, d, NIGHT)] : chosen \in candidates}

\* One pass of the loop over n: x = [a, w].
NightStep(x, d) ==
    LET candidates == {i \in nightEligible : canAssignNight(i, x.a[i], d)}
        nightCount(i) == countShiftType(x.a[i], NIGHT)
        topCandidates ==
            {i \in candidates : \A j \in candidates : nightCount(i) <= nightCount(j)}
    IN IF candidates = {}
       THEN {[x EXCEPT !.w = Append(@, NightWarning(d))]}
       ELSE {[x EXCEPT !.a[chosen] =
                  IF d + 1 <= DaysInMonth
                  THEN setCell(setCell(@, d, NIGHT), d + 1, NIGHT_OFF)
                  ELSE setCell(@, d, NIGHT)] : chosen \in topCandidates}

RECURSIVE NightLoop(_, _, _)
NightLoop(x, d, n) ==
    IF n <= 0 THEN {x}
    ELSE UNION {NightLoop(y, d, n - 1) : y \in NightStep(x, d)}

\* Variant of NightRequiredOn that uses nightRequired on Sundays too.
nightRequiredEveryDay(d) == settings.nightRequired

NightRequiredOn(d) ==
    IF isSunday(d) THEN settings.sundayNightRequired ELSE settings.nightRequired

partStaff == {i \in StaffIds : staffList[i].type = "part"}

\* Variant of fullStaff that keeps the part-timers.
everyStaff == StaffIds

fullStaff == {i \in StaffIds : staffList[i].type # "part"}

\* if (partStaff.length > 1) guards phase 3.5; forEach over no part-timer
\* leaves phase 3 without a step.
PhaseAfter3 == IF Cardinality(partStaff) > 1 THEN "phase35" ELSE "phase4"

PhaseAfter2 == IF partStaff # {} THEN "phase3" ELSE PhaseAfter3

Phase2Day ==
    /\ pc = "phase2"
    /\ \E y \in NightLoop([a |-> allAssignments, w |-> warnings], day,
                          NightRequiredOn(day)) :
        /\ allAssignments' = y.a
        /\ warnings' = y.w
    /\ IF day < DaysInMonth
       THEN /\ day' = day + 1
            /\ pc' = pc
       ELSE /\ day' = 1
            /\ pc' = PhaseAfter2
    /\ idx' = IF day = DaysInMonth /\ partStaff # {} THEN MinOf(partStaff) ELSE 1
    /\ UNCHANGED <<staffList, requests, settings, firstDow, newShift,
                   consecutivePlus1Used, sundayReducedCount>>

----------------------------------------------------------------------------
(* Phase 3: PART shifts of the part-timers *)

\* One visit of day d by the work-work-off placement on the scratch row
\* (the week count and the backward run are computed inline by the code).
RECURSIVE PatternFill(_, _, _, _, _)
PatternFill(i, testAssignment, d, offset, targetWorkDays) ==
    IF d > DaysInMonth \/ countWorkDays(testAssignment) >= targetWorkDays
    THEN testAssignment
    ELSE LET skip ==
                 \/ (d - 1 + offset) % 3 = 2
                 \/ testAssignment[d] # OFF
                 \/ requestedDays(i, d)
                 \/ getWeekWorkDays(testAssignment, d) >= MaxPerWeek(staffList[i])
                 \/ getConsecutiveWorkDays(testAssignment, d - 1)
                        >= getStaffMaxConsecutive(staffList[i])
         IN PatternFill(i,
                        IF skip THEN testAssignment
                        ELSE [testAssignment EXCEPT ![d] = PART],
                        d + 1, offset, targetWorkDays)

\* The offset whose pattern yields the most workdays, the first one on ties.
BestPattern(i, row, targetWorkDays) ==
    LET test(offset) == PatternFill(i, row, 1, offset, targetWorkDays)
        best == MinOf({o \in 0..2 : \A q \in 0..2 :
                          countWorkDays(test(o)) >= countWorkDays(test(q))})
    IN test(best)

\* The gates of every greedy PART placement (phases 3 and 3.5).
PartGate(i, row, d, plus1Used) ==
    /\ ~requestedDays(i, d)
    /\ row[d] = OFF
    /\ getWeekWorkDays(row, d) < MaxPerWeek(staffList[i])
    /\ canWorkOnDay(i, row, d, plus1Used)

GreedyVisit(i, row, d, targetWorkDays, plus1Used) ==
    IF countWorkDays(row) < targetWorkDays /\ PartGate(i, row, d, plus1Used)
    THEN [row EXCEPT ![d] = PART]
    ELSE row

RECURSIVE GreedyForward(_, _, _, _, _, _)
GreedyForward(i, row, startDay, offset, targetWorkDays, plus1Used) ==
    IF offset >= DaysInMonth \/ countWorkDays(row) >= targetWorkDays THEN row
    ELSE GreedyForward(i,
             GreedyVisit(i, row, ((startDay - 1 + offset) % DaysInMonth) + 1,
                         targetWorkDays, plus1Used),
             startDay, offset + 1, targetWorkDays, plus1Used)

RECURSIVE GreedyBackward(_, _, _, _, _)
GreedyBackward(i, row, d, targetWorkDays, plus1Used) ==
    IF d < 1 \/ countWorkDays(row) >= targetWorkDays THEN row
    ELSE GreedyBackward(i, GreedyVisit(i, row, d, targetWorkDays, plus1Used),
                        d - 1, targetWorkDays, plus1Used)

\* The rows phase 3 can produce for part-timer i.
Phase3Rows(i, a, plus1Used) ==
    LET targetWorkDays == getActualTarget(a, i)
    IN IF getStaffMaxConsecutive(staffList[i]) <= 2
       THEN {BestPattern(i, a[i], targetWorkDays)}
       ELSE {GreedyBackward(i,
                 GreedyForward(i, a[i], startDay, 0, targetWorkDays, plus1Used),
                 DaysInMonth, targetWorkDays, plus1Used) : startDay \in Days}

DefaultStart == <<9, 0>>
DefaultEnd == <<17, 0>>

\* if (!staff.startTime) staff.startTime = '09:00'; likewise endTime
WithDefaultTimes(staff) ==
    [staff EXCEPT !.startTime = IF @ = <<>> THEN DefaultStart ELSE @,
                  !.endTime = IF @ = <<>> THEN DefaultEnd ELSE @]

Phase3Staff ==
    /\ pc = "phase3"
    /\ idx \in partStaff
    /\ staffList' = [staffList EXCEPT ![idx] = WithDefaultTimes(@)]
    /\ \E row \in Phase3Rows(idx, allAssignments, consecutivePlus1Used) :
        allAssignments' = [allAssignments EXCEPT ![idx] = row]
    /\ IF \E j \in partStaff : j > idx
       THEN /\ idx' = MinOf({j \in partStaff : j > idx})
            /\ pc' = pc
       ELSE /\ idx' = 1
            /\ pc' = PhaseAfter3
    /\ UNCHANGED <<requests, settings, firstDow, newShift, day, consecutivePlus1Used,
                   sundayReducedCount, warnings>>

----------------------------------------------------------------------------
(* Phase 3.5: equalising the rest of the part-timers *)

\* One iteration: the table after it, or the same table when the loop breaks.
Equalize(a, plus1Used) ==
    LET overOff == {i \in partStaff : countOffDays(a[i]) > TargetOff(staffList[i])}
        \* overOff.sort((a, b) => b.off - a.off)[0]: most OFF cells, roster order on ties
        worst == MinOf({i \in overOff : \A j \in overOff :
                            countOffDays(a[i]) >= countOffDays(a[j])})
        \* the forward scan takes the first open day; the backward scan that
        \* follows a failed forward scan tests the same gates on the same days
        open == {d \in Days : PartGate(worst, a[worst], d, plus1Used)}
    IN IF overOff = {} \/ open = {} THEN a
       ELSE [a EXCEPT ![worst][MinOf(open)] = PART]

RECURSIVE EqualizeLoop(_, _, _)
EqualizeLoop(a, plus1Used, iter) ==
    IF iter >= MaxIter35 \/ Equalize(a, plus1Used) = a THEN a
    ELSE EqualizeLoop(Equalize(a, plus1Used), plus1Used, iter + 1)

Phase35 ==
    /\ pc = "phase35"
    /\ allAssignments' = EqualizeLoop(allAssignments, consecutivePlus1Used, 0)
    /\ pc' = "phase4"
    /\ UNCHANGED <<staffList, requests, settings, firstDow, newShift, day, idx,
                   consecutivePlus1Used, sundayReducedCount, warnings>>

----------------------------------------------------------------------------
(* Phase 4: day shifts of the full-timers *)

\* Variant of getAvailableFull without the off-day floor.
getAvailableFullBelowFloor(a, plus1Used, d) ==
    {i \in fullStaff :
        /\ a[i][d] = OFF
        /\ canWorkOnDay(i, a[i], d, plus1Used)
        /\ ~requestedDays(i, d)}

getAvailableFull(a, plus1Used, d) ==
    {i \in fullStaff :
        /\ a[i][d] = OFF
        /\ canWorkOnDay(i, a[i], d, plus1Used)
        /\ ~requestedDays(i, d)
        /\ countOffDays(a[i]) > TargetOff(staffList[i])}

sortSoftCmp(a, i, j) ==
    LET aGap == getWorkGap(a, i)
        bGap == getWorkGap(a, j)
    IN IF aGap > 0 /\ bGap <= 0 THEN -1
       ELSE IF aGap <= 0 /\ bGap > 0 THEN 1
       ELSE bGap - aGap

sortSoft(a, list) ==
    SortedOrders(list, [p \in list \X list |-> sortSoftCmp(a, p[1], p[2])])

\* sortSoft(list).sort(by count of shiftType): the second sort is stable, so
\* the count decides and the sortSoft order breaks its ties.
sortBalanced(a, list, shiftType) ==
    LET cmp(i, j) ==
            IF countShiftType(a[i], shiftType) # countShiftType(a[j], shiftType)
            THEN countShiftType(a[i], shiftType) - countShiftType(a[j], shiftType)
            ELSE sortSoftCmp(a, i, j)
    IN SortedOrders(list, [p \in list \X list |-> cmp(p[1], p[2])])

\* Variant of sortForOT without the MAX_OT_PER_PERSON filter.
sortForOTUncapped(a, list) ==
    LET otCount(i) == countShiftType(a[i], OVERTIME)
        cmp(i, j) == IF otCount(i) # otCount(j) THEN otCount(i) - otCount(j)
                     ELSE getWorkGap(a, j) - getWorkGap(a, i)
    IN SortedOrders(list, [p \in list \X list |-> cmp(p[1], p[2])])

sortForOT(a, list) ==
    LET otCount(i) == countShiftType(a[i], OVERTIME)
        kept == {i \in list : otCount(i) < MAX_OT_PER_PERSON}
        cmp(i, j) == IF otCount(i) # otCount(j) THEN otCount(i) - otCount(j)
                     ELSE getWorkGap(a, j) - getWorkGap(a, i)
    IN SortedOrders(kept, [p \in kept \X kept |-> cmp(p[1], p[2])])

Need(a, d, minutes, required) == Max2(0, required - countStaffAtTime(a, d, minutes))

\* The day's state: table a, +1 tracker p, and mNeed, nNeed, eNeed.
Phase4Start(a, plus1Used, d) ==
    LET reduced == isSunday(d) /\ sundayReducedCount < MAX_SUNDAY_REDUCED
        mornReq == IF reduced THEN SundayFloor ELSE FloorRequired
        noonReq == IF reduced THEN SundayFloor ELSE FloorRequired
    IN [a |-> a, p |-> plus1Used,
        m |-> Need(a, d, MornMinutes, mornReq),
        n |-> Need(a, d, NoonMinutes, noonReq),
        e |-> Need(a, d, EveMinutes, FloorRequired)]

\* Strategic OVERTIME: written to the cell directly.
strategicCandidates(x, d) ==
    {i \in getAvailableFull(x.a, x.p, d) :
        /\ staffList[i].canOvertime
        /\ countShiftType(x.a[i], OVERTIME) < TARGET_OT}

Phase4Strategic(x, d) ==
    LET otWant == Min2(x.m, x.e)
    IN IF otWant <= 0 THEN {x}
       ELSE {LET k == Min2(otWant, Cardinality(DOMAIN otCands))
                 taken == {otCands[q] : q \in 1..k}
                 a2 == [i \in StaffIds |->
                           IF i \in taken THEN [x.a[i] EXCEPT ![d] = OVERTIME]
                           ELSE x.a[i]]
             IN [x EXCEPT !.a = a2,
                          !.m = Need(a2, d, MornMinutes, FloorRequired),
                          !.n = Need(a2, d, NoonMinutes, FloorRequired),
                          !.e = Need(a2, d, EveMinutes, FloorRequired)]
             : otCands \in sortForOT(x.a, strategicCandidates(x, d))}

\* assignShift for cands[q], ..., cands[k]
RECURSIVE AssignPrefix(_, _, _, _, _, _)
AssignPrefix(x, cands, q, k, d, shiftType) ==
    IF q > k THEN x
    ELSE AssignPrefix(assignShift(x, cands[q], d, shiftType), cands, q + 1, k,
                      d, shiftType)

Phase4Early(x, d) ==
    IF x.m <= 0 THEN {x}
    ELSE {LET y == AssignPrefix(x, cands, 1,
                                Min2(x.m, Cardinality(DOMAIN cands)), d, EARLY)
          IN [y EXCEPT !.m = Need(y.a, d, MornMinutes, FloorRequired),
                       !.n = Need(y.a, d, NoonMinutes, FloorRequired)]
          : cands \in sortBalanced(x.a, getAvailableFull(x.a, x.p, d), EARLY)}

Phase4Late(x, d) ==
    IF x.e <= 0 THEN {x}
    ELSE {LET y == AssignPrefix(x, cands, 1,
                                Min2(x.e, Cardinality(DOMAIN cands)), d, LATE)
          IN [y EXCEPT !.e = Need(y.a, d, EveMinutes, FloorRequired),
                       !.n = Need(y.a, d, NoonMinutes, FloorRequired)]
          : cands \in sortBalanced(x.a, getAvailableFull(x.a, x.p, d), LATE)}

\* EARLY or LATE, whichever the staff holds less often (EARLY on ties).
lowerSide(row) ==
    IF countShiftType(row, EARLY) <= countShiftType(row, LATE) THEN EARLY ELSE LATE

RECURSIVE NoonLoop(_, _, _, _)
NoonLoop(x, cands, q, d) ==
    IF q > Cardinality(DOMAIN cands) \/ x.n <= 0 THEN x
    ELSE LET y == assignShift(x, cands[q], d, lowerSide(x.a[cands[q]]))
         IN NoonLoop([y EXCEPT !.n = Need(y.a, d, NoonMinutes, FloorRequired)],
                     cands, q + 1, d)

Phase4Noon(x, d) ==
    IF x.n <= 0 THEN {x}
    ELSE {NoonLoop(x, cands, 1, d)
          : cands \in sortSoft(x.a, getAvailableFull(x.a, x.p, d))}

\* Variant of upgradable without the canOvertime filter.
upgradableAnyone(a, d, from) ==
    {i \in fullStaff : a[i][d] = from}

\* Holders of shift `from` on day d that may be upgraded to OVERTIME.
upgradable(a, d, from) ==
    {i \in fullStaff : a[i][d] = from /\ staffList[i].canOvertime}

RECURSIVE UpgradeLoop(_, _, _, _, _)
UpgradeLoop(a, sorted, q, d, minutes) ==
    IF q > Cardinality(DOMAIN sorted)
       \/ countStaffAtTime(a, d, minutes) >= FloorRequired
    THEN a
    ELSE UpgradeLoop([a EXCEPT ![sorted[q]][d] = OVERTIME], sorted, q + 1, d,
                     minutes)

Phase4Upgrade(x, d, from, minutes) ==
    IF countStaffAtTime(x.a, d, minutes) >= FloorRequired THEN {x}
    ELSE {[x EXCEPT !.a = UpgradeLoop(x.a, sorted, 1, d, minutes)]
          : sorted \in sortForOT(x.a, upgradable(x.a, d, from))}

\* The shortfall messages of one day, in checkpoint order.
RECURSIVE ShortfallWarnings(_, _, _)
ShortfallWarnings(a, d, c) ==
    IF c > Len(TIME_CHECKPOINTS) THEN <<>>
    ELSE LET minutes == TIME_CHECKPOINTS[c].minutes
             count == countStaffAtTime(a, d, minutes)
         IN (IF count < FloorRequired
             THEN <<CoverageWarning(d, minutes, count, FloorRequired)>>
             ELSE <<>>)
            \o ShortfallWarnings(a, d, c + 1)

Phase4Outcomes(a, plus1Used, d) ==
    LET s1 == Phase4Strategic(Phase4Start(a, plus1Used, d), d)
        s2 == UNION {Phase4Early(x, d) : x \in s1}
        s3 == UNION {Phase4Late(x, d) : x \in s2}
        s4 == UNION {Phase4Noon(x, d) : x \in s3}
        s5 == UNION {Phase4Upgrade(x, d, EARLY, EveMinutes) : x \in s4}
    IN UNION {Phase4Upgrade(x, d, LATE, MornMinutes) : x \in s5}

PhaseAfter4 == IF fullStaff # {} THEN "phase5" ELSE "phase55"

Phase4Day ==
    /\ pc = "phase4"
    /\ \E x \in Phase4Outcomes(allAssignments, consecutivePlus1Used, day) :
        /\ allAssignments' = x.a
        /\ consecutivePlus1Used' = x.p
        /\ warnings' = warnings \o ShortfallWarnings(x.a, day, 1)
    /\ IF day < DaysInMonth
       THEN /\ day' = day + 1
            /\ pc' = pc
            /\ idx' = idx
       ELSE /\ day' = 1
            /\ pc' = PhaseAfter4
            /\ idx' = IF fullStaff # {} THEN MinOf(fullStaff) ELSE 1
    /\ UNCHANGED <<staffList, requests, settings, firstDow, newShift, sundayReducedCount>>

----------------------------------------------------------------------------
(* Phase 5: topping up full-timers that are below their workday target *)

topUpDays(a, plus1Used, i) ==
    {d \in Days : a[i][d] = OFF /\ ~requestedDays(i, d)
                  /\ canWorkOnDay(i, a[i], d, plus1Used)}

deficit(a, d) ==
    Need(a, d, MornMinutes, FloorRequired) + Need(a, d, NoonMinutes, FloorRequired)
    + Need(a, d, EveMinutes, FloorRequired)

\* Staff at work on day d, whatever the hour.
dayTotal(a, d) == Cardinality({o \in StaffIds : IsWorkShift(a[o][d])})

\* Variant of topUpShift that looks at the staff's own balance only.
topUpShiftOwnBalance(a, i, d) == lowerSide(a[i])

topUpShift(a, i, d) ==
    LET mc == countStaffAtTime(a, d, MornMinutes)
        nc == countStaffAtTime(a, d, NoonMinutes)
        ec == countStaffAtTime(a, d, EveMinutes)
    IN IF ec <= mc /\ ec <= nc THEN LATE
       ELSE IF mc <= nc THEN EARLY
       ELSE lowerSide(a[i])

\* The days one pass of the while loop may choose: the first day of largest
\* positive deficit, else any day of least attendance.
chosenDays(a, plus1Used, i) ==
    LET cand == topUpDays(a, plus1Used, i)
        short == {d \in cand : deficit(a, d) > 0}
    IN IF short # {}
       THEN {MinOf({d \in short : \A e \in short : deficit(a, d) >= deficit(a, e)})}
       ELSE {d \in cand : \A e \in cand : dayTotal(a, d) <= dayTotal(a, e)}

\* The loop goes on: gap > 0, the off-day floor is not reached, a day is left.
topUpContinues(a, plus1Used, i) ==
    /\ getWorkGap(a, i) > 0
    /\ countOffDays(a[i]) > TargetOff(staffList[i])
    /\ chosenDays(a, plus1Used, i) # {}

Phase5Step ==
    /\ pc = "phase5"
    /\ idx \in fullStaff
    /\ IF topUpContinues(allAssignments, consecutivePlus1Used, idx)
       THEN /\ \E d \in chosenDays(allAssignments, consecutivePlus1Used, idx) :
                 allAssignments' =
                     [allAssignments EXCEPT ![idx][d] = topUpShift(allAssignments, idx, d)]
            /\ UNCHANGED <<pc, idx>>
       ELSE /\ allAssignments' = allAssignments
            /\ IF \E j \in fullStaff : j > idx
               THEN /\ idx' = MinOf({j \in fullStaff : j > idx})
                    /\ pc' = pc
               ELSE /\ idx' = 1
                    /\ pc' = "phase55"
    /\ day' = 1
    /\ UNCHANGED <<staffList, requests, settings, firstDow, newShift, consecutivePlus1Used,
                   sundayReducedCount, warnings>>

----------------------------------------------------------------------------
(* Phase 5.5: final rescue of every day and checkpoint *)

RescueResult(a, outcome) == [a |-> a, r |-> outcome]

\* Rescue 1: sortForOT(up)[0] becomes OVERTIME; reading .id of the missing
\* first element of an empty array is a TypeError.
rescueUpgrade(a, d, from) ==
    {IF sorted = <<>> THEN RescueResult(a, "raised")
     ELSE RescueResult([a EXCEPT ![sorted[1]][d] = OVERTIME], "rescued")
     : sorted \in sortForOT(a, upgradable(a, d, from))}

\* Rescue 2: the first of the available full-timers, written directly.
rescueFull(a, plus1Used, d, minutes) ==
    LET shifts == IF minutes >= EveMinutes THEN {LATE}
                  ELSE IF minutes <= MornMinutes THEN {EARLY}
                  ELSE {EARLY, LATE}
    IN {RescueResult([a EXCEPT ![available[1]][d] = shift], "rescued")
        : available \in sortSoft(a, getAvailableFull(a, plus1Used, d)),
          shift \in shifts}

\* Rescue 3: part-timers whose own hours cover the checkpoint.  A part-timer
\* that passes has both times set, so the defaulting of times changes nothing.
rescuePartCandidates(a, plus1Used, d, minutes) ==
    {i \in partStaff :
        /\ a[i][d] = OFF
        /\ ~requestedDays(i, d)
        /\ canWorkOnDay(i, a[i], d, plus1Used)
        /\ countOffDays(a[i]) > TargetOff(staffList[i])
        /\ isStaffPresentAt(staffList[i], PART, minutes)}

\* Variant of RescueStep whose rescue 3 writes LATE for the part-timer.
RescueStepPartAsLate(a, plus1Used, d, c) ==
    LET minutes == TIME_CHECKPOINTS[c].minutes
        from == IF minutes >= EveMinutes THEN EARLY
                ELSE IF minutes <= MornMinutes THEN LATE
                ELSE OFF
        parts == rescuePartCandidates(a, plus1Used, d, minutes)
    IN IF from # OFF /\ upgradable(a, d, from) # {}
       THEN rescueUpgrade(a, d, from)
       ELSE IF getAvailableFull(a, plus1Used, d) # {}
       THEN rescueFull(a, plus1Used, d, minutes)
       ELSE IF parts # {}
       THEN {RescueResult([a EXCEPT ![MinOf(parts)][d] = LATE], "rescued")}
       ELSE {RescueResult(a, "none")}

\* One pass of the while loop of checkpoint c on day d.
RescueStep(a, plus1Used, d, c) ==
    LET minutes == TIME_CHECKPOINTS[c].minutes
        from == IF minutes >= EveMinutes THEN EARLY
                ELSE IF minutes <= MornMinutes THEN LATE
                ELSE OFF
        parts == rescuePartCandidates(a, plus1Used, d, minutes)
    IN IF from # OFF /\ upgradable(a, d, from) # {}
       THEN rescueUpgrade(a, d, from)
       ELSE IF getAvailableFull(a, plus1Used, d) # {}
       THEN rescueFull(a, plus1Used, d, minutes)
       ELSE IF parts # {}
       THEN {RescueResult([a EXCEPT ![MinOf(parts)][d] = PART], "rescued")}
       ELSE {RescueResult(a, "none")}

RequiredAt(d, c) ==
    IF isSunday(d) THEN TIME_CHECKPOINTS[c].sundayRequired
    ELSE TIME_CHECKPOINTS[c].required

RECURSIVE RescueLoop(_, _, _, _)
RescueLoop(a, plus1Used, d, c) ==
    IF countStaffAtTime(a, d, TIME_CHECKPOINTS[c].minutes) >= RequiredAt(d, c)
    THEN {RescueResult(a, "none")}
    ELSE UNION {IF y.r = "rescued" THEN RescueLoop(y.a, plus1Used, d, c) ELSE {y}
                : y \in RescueStep(a, plus1Used, d, c)}

RECURSIVE RescueDay(_, _, _, _)
RescueDay(a, plus1Used, d, c) ==
    IF c > Len(TIME_CHECKPOINTS) THEN {RescueResult(a, "none")}
    ELSE UNION {IF y.r = "raised" THEN {y} ELSE RescueDay(y.a, plus1Used, d, c + 1)
                : y \in RescueLoop(a, plus1Used, d, c)}

PhaseAfter55 == IF fullStaff # {} THEN "phase58" ELSE "phase6"

Phase55Day ==
    /\ pc = "phase55"
    /\ \E y \in RescueDay(allAssignments, consecutivePlus1Used, day, 1) :
        /\ allAssignments' = y.a
        /\ IF y.r = "raised"
           THEN /\ pc' = "raised"
                /\ UNCHANGED <<day, idx>>
           ELSE IF day < DaysInMonth
           THEN /\ day' = day + 1
                /\ UNCHANGED <<pc, idx>>
           ELSE /\ day' = 1
                /\ pc' = PhaseAfter55
                /\ idx' = IF fullStaff # {} THEN MinOf(fullStaff) ELSE 1
    /\ UNCHANGED <<staffList, requests, settings, firstDow, newShift, consecutivePlus1Used,
                   sundayReducedCount, warnings>>

----------------------------------------------------------------------------
(* Phase 5.8: balancing EARLY and LATE *)

\* Variant of SwapLoop that keeps every swap, whatever the counts after it.
RECURSIVE SwapLoopUnchecked(_, _, _, _, _, _)
SwapLoopUnchecked(a, i, d, swapCount, fromType, toType) ==
    IF d > DaysInMonth \/ swapCount <= 0 THEN a
    ELSE IF a[i][d] # fromType
    THEN SwapLoopUnchecked(a, i, d + 1, swapCount, fromType, toType)
    ELSE SwapLoopUnchecked([a EXCEPT ![i][d] = toType], i, d + 1, swapCount - 1,
                           fromType, toType)

RECURSIVE SwapLoop(_, _, _, _, _, _)
SwapLoop(a, i, d, swapCount, fromType, toType) ==
    IF d > DaysInMonth \/ swapCount <= 0 THEN a
    ELSE IF a[i][d] # fromType
    THEN SwapLoop(a, i, d + 1, swapCount, fromType, toType)
    ELSE LET b == [a EXCEPT ![i][d] = toType]
         IN IF countStaffAtTime(b, d, MornMinutes) < FloorRequired
               \/ countStaffAtTime(b, d, EveMinutes) < FloorRequired
            THEN SwapLoop(a, i, d + 1, swapCount, fromType, toType)
            ELSE SwapLoop(b, i, d + 1, swapCount - 1, fromType, toType)

Balance(a, i) ==
    LET earlyC == countShiftType(a[i], EARLY)
        lateC == countShiftType(a[i], LATE)
        diff == IF earlyC >= lateC THEN earlyC - lateC ELSE lateC - earlyC
    IN IF diff <= 2 THEN a
       ELSE IF earlyC > lateC THEN SwapLoop(a, i, 1, diff \div 2, EARLY, LATE)
       ELSE SwapLoop(a, i, 1, diff \div 2, LATE, EARLY)

Phase58Staff ==
    /\ pc = "phase58"
    /\ idx \in fullStaff
    /\ allAssignments' = Balance(allAssignments, idx)
    /\ IF \E j \in fullStaff : j > idx
       THEN /\ idx' = MinOf({j \in fullStaff : j > idx})
            /\ pc' = pc
       ELSE /\ idx' = 1
            /\ pc' = "phase6"
    /\ UNCHANGED <<staffList, requests, settings, firstDow, newShift, day,
                   consecutivePlus1Used, sundayReducedCount, warnings>>

----------------------------------------------------------------------------
(* Phases 6 and 7: off-day warnings, final coverage check, validation *)

\* f[lo] \o ... \o f[hi] for a function f to sequences
RECURSIVE Flatten(_, _, _)
Flatten(f, lo, hi) ==
    IF lo > hi THEN <<>>
    ELSE IF lo = hi THEN f[lo]
    ELSE Flatten(f, lo, (lo + hi) \div 2) \o Flatten(f, (lo + hi) \div 2 + 1, hi)

\* Variant of offDayWarnings that also warns a staff who ends exactly on the
\* target.
offDayWarningsAtTarget(a) ==
    Flatten([i \in StaffIds |->
                IF countOffDays(a[i]) <= TargetOff(staffList[i])
                THEN <<OffWarning(i, countOffDays(a[i]), TargetOff(staffList[i]))>>
                ELSE <<>>],
            1, Len(staffList))

offDayWarnings(a) ==
    Flatten([i \in StaffIds |->
                IF countOffDays(a[i]) < TargetOff(staffList[i])
                THEN <<OffWarning(i, countOffDays(a[i]), TargetOff(staffList[i]))>>
                ELSE <<>>],
            1, Len(staffList))

InSeq(e, seq) == \E q \in 1..Len(seq) : seq[q] = e

\* Variant of finalCoverage that pushes no message for a day and checkpoint
\* that already has a shortfall message, whatever count that message states.
finalCoverageOncePerCheckpoint(w, a) ==
    w \o Flatten([d \in Days |->
                    Flatten([c \in 1..Len(TIME_CHECKPOINTS) |->
                                LET count == countStaffAtTime(a, d, TIME_CHECKPOINTS[c].minutes)
                                    msg == CoverageWarning(d, TIME_CHECKPOINTS[c].minutes,
                                                           count, RequiredAt(d, c))
                                IN IF count < RequiredAt(d, c)
                                      /\ ~\E q \in 1..Len(w) :
                                            /\ w[q].k = "coverage"
                                            /\ w[q].d = d
                                            /\ w[q].c = TIME_CHECKPOINTS[c].minutes
                                   THEN <<msg>> ELSE <<>>],
                            1, Len(TIME_CHECKPOINTS))],
                  1, DaysInMonth)

\* if (!warnings.includes(msg)) warnings.push(msg), for every day and
\* checkpoint.  The messages of two (day, checkpoint) pairs differ, so
\* includes() can only find a message that was pushed before this loop.
finalCoverage(w, a) ==
    w \o Flatten([d \in Days |->
                    Flatten([c \in 1..Len(TIME_CHECKPOINTS) |->
                                LET count == countStaffAtTime(a, d, TIME_CHECKPOINTS[c].minutes)
                                    msg == CoverageWarning(d, TIME_CHECKPOINTS[c].minutes,
                                                           count, RequiredAt(d, c))
                                IN IF count < RequiredAt(d, c) /\ ~InSeq(msg, w)
                                   THEN <<msg>> ELSE <<>>],
                            1, Len(TIME_CHECKPOINTS))],
                  1, DaysInMonth)

consecutiveWarnings(i, row) ==
    LET maxConsec == getStaffMaxConsecutive(staffList[i])
    IN Flatten([d \in Days |->
                   IF getConsecutiveWorkDays(row, d) > maxConsec
                   THEN <<Warning("consecutive", i, d, 0,
                                  getConsecutiveWorkDays(row, d), maxConsec)>>
                   ELSE <<>>],
               1, DaysInMonth)

\* Variant of nightWarnings that looks for the NIGHT_OFF after the last day
\* of the month too.
nightWarningsPastMonthEnd(i, row) ==
    LET staff == staffList[i]
        nightType == NightTypeOf(staff)
    IN Flatten([d \in Days |->
                   IF row[d] # NIGHT THEN <<>>
                   ELSE (IF nightType = "none" \/ staff.type = "part"
                         THEN <<Warning("nightNotAllowed", i, d, 0, 0, 0)>>
                         ELSE <<>>)
                        \o (IF nightType = "weekday" /\ isFriSatSun(d)
                            THEN <<Warning("nightWeekdayOnly", i, d, 0, 0, 0)>>
                            ELSE <<>>)
                        \o (IF d + 1 > DaysInMonth \/ row[d + 1] # NIGHT_OFF
                            THEN <<Warning("noNightOff", i, d, 0, 0, 0)>>
                            ELSE <<>>)],
               1, DaysInMonth)

nightWarnings(i, row) ==
    LET staff == staffList[i]
        nightType == NightTypeOf(staff)
    IN Flatten([d \in Days |->
                   IF row[d] # NIGHT THEN <<>>
                   ELSE (IF nightType = "none" \/ staff.type = "part"
                         THEN <<Warning("nightNotAllowed", i, d, 0, 0, 0)>>
                         ELSE <<>>)
                        \o (IF nightType = "weekday" /\ isFriSatSun(d)
                            THEN <<Warning("nightWeekdayOnly", i, d, 0, 0, 0)>>
                            ELSE <<>>)
                        \o (IF d + 1 <= DaysInMonth /\ row[d + 1] # NIGHT_OFF
                            THEN <<Warning("noNightOff", i, d, 0, 0, 0)>>
                            ELSE <<>>)],
               1, DaysInMonth)

overtimeWarnings(i, row) ==
    Flatten([d \in Days |->
                IF row[d] = OVERTIME
                   /\ (~staffList[i].canOvertime \/ staffList[i].type = "part")
                THEN <<Warning("overtimeNotAllowed", i, d, 0, 0, 0)>>
                ELSE <<>>],
            1, DaysInMonth)

sideWarnings(i, row) ==
    LET staff == staffList[i]
    IN Flatten([d \in Days |->
                   IF staff.type = "part" /\ staff.earlyOnly
                      /\ row[d] \in {LATE, OVERTIME}
                   THEN <<Warning("earlyOnly", i, d, 0, 0, 0)>>
                   ELSE <<>>],
               1, DaysInMonth)
       \o Flatten([d \in Days |->
                      IF staff.type = "part" /\ staff.lateOnly
                         /\ row[d] \in {EARLY, OVERTIME}
                      THEN <<Warning("lateOnly", i, d, 0, 0, 0)>>
                      ELSE <<>>],
                  1, DaysInMonth)

validateSchedule(a) ==
    Flatten([i \in StaffIds |->
                consecutiveWarnings(i, a[i]) \o nightWarnings(i, a[i])
                \o overtimeWarnings(i, a[i]) \o sideWarnings(i, a[i])],
            1, Len(staffList))

\* Variant of Finish that returns without phase 7.
FinishWithoutValidation ==
    /\ pc = "phase6"
    /\ warnings' = finalCoverage(warnings \o offDayWarnings(allAssignments),
                                 allAssignments)
    /\ pc' = "done"
    /\ UNCHANGED <<staffList, requests, settings, firstDow, newShift, day, idx,
                   allAssignments, consecutivePlus1Used, sundayReducedCount>>

Finish ==
    /\ pc = "phase6"
    /\ warnings' = finalCoverage(warnings \o offDayWarnings(allAssignments),
                                 allAssignments)
                   \o validateSchedule(allAssignments)
    /\ pc' = "done"
    /\ UNCHANGED <<staffList, requests, settings, firstDow, newShift, day, idx,
                   allAssignments, consecutivePlus1Used, sundayReducedCount>>

----------------------------------------------------------------------------
(* The run *)

Next ==
    \/ Phase2Day
    \/ Phase3Staff
    \/ Phase35
    \/ Phase4Day
    \/ Phase5Step
    \/ Phase55Day
    \/ Phase58Staff
    \/ Finish

Spec == Init /\ [][Next]_vars

----------------------------------------------------------------------------
(* validateSchedule called on its own, on a table of the caller *)

\* The rosters of the validated tables: one staff of each kind.
ValidateRosters ==
    { << FullStaff("none", FALSE, TRUE, 9, 0, FALSE) >>,
      << FullStaff("weekday", FALSE, FALSE, 9, 0, FALSE) >>,
      << FullStaff("all", FALSE, TRUE, 9, 0, TRUE) >>,
      << FullStaff("", TRUE, TRUE, 9, 0, FALSE) >>,
      << FullStaff("", FALSE, FALSE, 9, 1, FALSE) >>,
      << PartStaff(TRUE, FALSE, 9, 0, 0, FALSE, <<7, 0>>, <<13, 0>>) >>,
      << PartStaff(FALSE, TRUE, 9, 0, 0, FALSE, <<>>, <<>>) >>,
      << PartStaff(FALSE, FALSE, 9, 0, 1, TRUE, <<9, 0>>, <<18, 0>>) >> }

\* The first of the two neighbouring days that are not OFF in a validated
\* table: at the start, inside and at the end of the month.
ProbeDays == {1, 5, DaysInMonth - 1, DaysInMonth}

\* Tables of one row that is OFF but on day p and the day after it.
ProbeTables ==
    { << [d \in Days |-> IF d = p THEN s1 ELSE IF d = p + 1 THEN s2 ELSE OFF] >>
      : p \in ProbeDays, s1 \in SHIFT_TYPES, s2 \in SHIFT_TYPES }

InitValidate ==
    /\ staffList \in ValidateRosters
    /\ requests = << {} >>
    /\ settings = DEFAULT_SETTINGS
    /\ firstDow \in {0, 3}
    /\ newShift = OFF
    /\ pc = "validate"
    /\ day = 1
    /\ idx = 1
    /\ allAssignments \in ProbeTables
    /\ consecutivePlus1Used = << 0 >>
    /\ sundayReducedCount = 0
    /\ warnings = <<>>

\* return warnings of validateSchedule
Validate ==
    /\ pc = "validate"
    /\ warnings' = validateSchedule(allAssignments)
    /\ pc' = "validated"
    /\ UNCHANGED <<staffList, requests, settings, firstDow, newShift, day, idx,
                   allAssignments, consecutivePlus1Used, sundayReducedCount>>

SpecValidate == InitValidate /\ [][Validate]_vars

----------------------------------------------------------------------------
(* getShiftChangeWarnings: the warnings of one candidate edit of a cell *)

EditWarning(kind, i, n, r) == Warning(kind, i, 0, 0, n, r)

\* Variant of getShiftChangeWarnings that probes the live row of the table
\* instead of a copy of it.
getShiftChangeWarningsOnLiveRow(i, a, d, shift) ==
    LET staff == staffList[i]
        assignments == setCell(a[i], d, shift)
        maxConsec == getStaffMaxConsecutive(staff)
        nightType == NightTypeOf(staff)
    IN [a |-> [a EXCEPT ![i] = assignments],
        w |-> (IF \E e \in Days : getConsecutiveWorkDays(assignments, e) > maxConsec
               THEN <<EditWarning("consecutive", i, maxConsec + 1, maxConsec)>>
               ELSE <<>>)
              \o (IF shift = NIGHT /\ nightType = "none"
                  THEN <<EditWarning("nightNotAllowed", i, 0, 0)>> ELSE <<>>)
              \o (IF shift = NIGHT /\ nightType = "weekday" /\ isFriSatSun(d)
                  THEN <<EditWarning("nightWeekdayOnly", i, 0, 0)>> ELSE <<>>)
              \o (IF shift = NIGHT /\ staff.type = "part"
                  THEN <<EditWarning("partNoNight", i, 0, 0)>> ELSE <<>>)
              \o (IF shift = EARLY /\ staff.type = "part" /\ staff.lateOnly
                  THEN <<EditWarning("lateOnly", i, 0, 0)>> ELSE <<>>)
              \o (IF shift = LATE /\ staff.type = "part" /\ staff.earlyOnly
                  THEN <<EditWarning("earlyOnly", i, 0, 0)>> ELSE <<>>)
              \o (IF shift = OVERTIME /\ ~staff.canOvertime
                  THEN <<EditWarning("overtimeNotAllowed", i, 0, 0)>> ELSE <<>>)
              \o (IF shift = OVERTIME /\ staff.type = "part"
                  THEN <<EditWarning("partNoOvertime", i, 0, 0)>> ELSE <<>>)
              \o (IF shift = OVERTIME /\ (staff.earlyOnly \/ staff.lateOnly)
                  THEN <<EditWarning(IF staff.earlyOnly THEN "earlyOnly"
                                     ELSE "lateOnly", i, 0, 0)>>
                  ELSE <<>>)]

\* The call's effect on the table it was given (a) and its result (w).  The
\* probe is written to assignments = {...allAssignments[staff.id]}, a copy.
\* The loop over the days stops at the first day whose running count exceeds
\* maxConsec, where the count is maxConsec + 1.
getShiftChangeWarnings(i, a, d, shift) ==
    LET staff == staffList[i]
        assignments == setCell(a[i], d, shift)
        maxConsec == getStaffMaxConsecutive(staff)
        nightType == NightTypeOf(staff)
    IN [a |-> a,
        w |-> (IF \E e \in Days : getConsecutiveWorkDays(assignments, e) > maxConsec
               THEN <<EditWarning("consecutive", i, maxConsec + 1, maxConsec)>>
               ELSE <<>>)
              \o (IF shift = NIGHT /\ nightType = "none"
                  THEN <<EditWarning("nightNotAllowed", i, 0, 0)>> ELSE <<>>)
              \o (IF shift = NIGHT /\ nightType = "weekday" /\ isFriSatSun(d)
                  THEN <<EditWarning("nightWeekdayOnly", i, 0, 0)>> ELSE <<>>)
              \o (IF shift = NIGHT /\ staff.type = "part"
                  THEN <<EditWarning("partNoNight", i, 0, 0)>> ELSE <<>>)
              \o (IF shift = EARLY /\ staff.type = "part" /\ staff.lateOnly
                  THEN <<EditWarning("lateOnly", i, 0, 0)>> ELSE <<>>)
              \o (IF shift = LATE /\ staff.type = "part" /\ staff.earlyOnly
                  THEN <<EditWarning("earlyOnly", i, 0, 0)>> ELSE <<>>)
              \o (IF shift = OVERTIME /\ ~staff.canOvertime
                  THEN <<EditWarning("overtimeNotAllowed", i, 0, 0)>> ELSE <<>>)
              \o (IF shift = OVERTIME /\ staff.type = "part"
                  THEN <<EditWarning("partNoOvertime", i, 0, 0)>> ELSE <<>>)
              \o (IF shift = OVERTIME /\ (staff.earlyOnly \/ staff.lateOnly)
                  THEN <<EditWarning(IF staff.earlyOnly THEN "earlyOnly"
                                     ELSE "lateOnly", i, 0, 0)>>
                  ELSE <<>>)]

\* Tables of one row that is OFF but on two neighbouring days, and the days
\* that are probed: on these days, next to them and away from them.
EditTables ==
    { << [d \in Days |-> IF d = p THEN s1 ELSE IF d = p + 1 THEN s2 ELSE OFF] >>
      : p \in {1, 5, DaysInMonth - 1}, s1 \in {OFF, EARLY, NIGHT, NIGHT_OFF},
        s2 \in {OFF, EARLY, NIGHT, NIGHT_OFF} }

EditDays == {2, 3, 7, DaysInMonth}

InitEdit ==
    /\ staffList \in ValidateRosters
    /\ requests = << {} >>
    /\ settings = DEFAULT_SETTINGS
    /\ firstDow \in {0, 3}
    /\ newShift \in SHIFT_TYPES
    /\ pc = "edit"
    /\ day \in EditDays
    /\ idx = 1
    /\ allAssignments \in EditTables
    /\ consecutivePlus1Used = << 0 >>
    /\ sundayReducedCount = 0
    /\ warnings = <<>>

\* One call getShiftChangeWarnings(staffList[idx], allAssignments, staffList,
\* day, newShift, ...).
EditProbe ==
    /\ pc = "edit"
    /\ LET r == getShiftChangeWarnings(idx, allAssignments, day, newShift)
       IN /\ allAssignments' = r.a
          /\ warnings' = r.w
    /\ pc' = "edited"
    /\ UNCHANGED <<staffList, requests, settings, firstDow, newShift, day, idx,
                   consecutivePlus1Used, sundayReducedCount>>

SpecEdit == InitEdit /\ [][EditProbe]_vars

----------------------------------------------------------------------------
(* Properties of the returned table *)

Returned == pc = "done"

Raised == pc = "raised"

\* Longest workday run of a row ending at day d, and the days on which a
\* maximal run ends.
runEndingAt(row, d) == getConsecutiveWorkDays(row, d)

runEnds(row) ==
    {d \in Days : IsWorkShift(row[d]) /\ (d = DaysInMonth \/ ~IsWorkShift(row[d + 1]))}

\* The documented consecutive limit of a staff: the override when positive,
\* else 2 for a full-timer with a night capability (nightShiftType, or the
\* legacy canNightShift flag when no type is given), else the global default.
effectiveMaxConsecutive(i) ==
    IF staffList[i].maxConsecutive > 0
    THEN staffList[i].maxConsecutive
    ELSE IF staffList[i].type # "part" /\ NightTypeOf(staffList[i]) # "none"
         THEN 2
         ELSE IF settings.maxConsecutive > 0
              THEN settings.maxConsecutive
              ELSE DEFAULT_SETTINGS.maxConsecutive

capOf(i) ==
    effectiveMaxConsecutive(i)
    + (IF staffList[i].allowConsecutivePlus1 THEN 1 ELSE 0)

DayShifts == {EARLY, LATE, OVERTIME}

\* C1: generate never raises: no run ends in an exception, also when the
\* phase 5.5 overtime rescue finds every EARLY (LATE) holder that can work
\* overtime already at 6 OVERTIME cells.
C1_NeverRaises == ~Raised

\* A NIGHT cell, and the NIGHT_OFF cell after a NIGHT, keep their value in
\* every step.
NightsKept ==
    \A i \in StaffIds : \A d \in Days :
        /\ allAssignments[i][d] = NIGHT => allAssignments'[i][d] = NIGHT
        /\ (d > 1 /\ allAssignments[i][d - 1] = NIGHT
                  /\ allAssignments[i][d] = NIGHT_OFF)
              => allAssignments'[i][d] = NIGHT_OFF

\* C2: night-morning pairing: a NIGHT on a day before the last is followed by
\* NIGHT_OFF on the same row, in the returned table and after every step of
\* the run, and no step of phases 2 to 5.8 overwrites a NIGHT or the
\* NIGHT_OFF that follows it.
C2_NightMorningPairing ==
    /\ [](\A i \in StaffIds : \A d \in 1..(DaysInMonth - 1) :
            allAssignments[i][d] = NIGHT => allAssignments[i][d + 1] = NIGHT_OFF)
    /\ [][NightsKept]_vars

\* C2 witness: a returned table in which a staff holds a NIGHT with its
\* NIGHT_OFF and later phases placed a day shift right before the NIGHT and
\* right after the NIGHT_OFF.
C2_Witness ==
    /\ Returned
    /\ \E i \in StaffIds : \E d \in 2..(DaysInMonth - 2) :
        /\ allAssignments[i][d] = NIGHT
        /\ allAssignments[i][d + 1] = NIGHT_OFF
        /\ allAssignments[i][d - 1] \in DayShifts
        /\ allAssignments[i][d + 2] \in DayShifts

\* C3: consecutive cap: in the returned table no workday run of a staff is
\* longer than the staff's documented limit, plus one when +1 overruns are
\* allowed.
C3_ConsecutiveCap ==
    Returned =>
        \A i \in StaffIds : \A d \in Days :
            runEndingAt(allAssignments[i], d) <= capOf(i)

\* The cap that the placement checks do keep: the one computed by
\* getStaffMaxConsecutive, which differs from the documented limit for a
\* record whose night capability is given by canNightShift alone.
ConsecutiveCapOfTheCode ==
    \A i \in StaffIds : \A d \in Days :
        runEndingAt(allAssignments[i], d)
            <= getStaffMaxConsecutive(staffList[i])
               + (IF staffList[i].allowConsecutivePlus1 THEN 1 ELSE 0)

\* Number of maximal workday runs of staff i that are one day over the maximum.
overruns(i) ==
    Cardinality({d \in runEnds(allAssignments[i]) :
                    runEndingAt(allAssignments[i], d)
                        = effectiveMaxConsecutive(i) + 1})

\* C4: +1 overrun budget: in the returned table a staff that tolerates +1
\* overruns has at most 2 workday runs of length maximum + 1.
C4_PlusOneBudget ==
    Returned =>
        \A i \in StaffIds :
            staffList[i].allowConsecutivePlus1 => overruns(i) <= MAX_CONSECUTIVE_PLUS1

\* C5: requested-off days are never worked: every requested day inside the
\* month is OFF in the returned table.
C5_RequestedDaysOff ==
    Returned =>
        \A i \in StaffIds : \A d \in requests[i] \cap Days :
            allAssignments[i][d] = OFF

\* C6: part weekly cap: in the returned table no Monday-to-Sunday week of a
\* part-timer holds more workdays than the staff's maxDaysPerWeek (default 3).
C6_PartWeeklyCap ==
    Returned =>
        \A i \in partStaff : \A d \in Days :
            getWeekWorkDays(allAssignments[i], d) <= MaxPerWeek(staffList[i])

\* C7: night eligibility: in the returned table, and in every table the run
\* passes through, NIGHT is held by no part-timer, by no staff whose night
\* capability (nightShiftType, or the legacy canNightShift) is none, and on no
\* Friday, Saturday or Sunday by a weekday-only staff.
C7_NightEligibility ==
    \A i \in StaffIds : \A d \in Days :
        allAssignments[i][d] = NIGHT =>
            /\ staffList[i].type # "part"
            /\ ~(staffList[i].nightShiftType = "none")
            /\ ~(staffList[i].nightShiftType = "" /\ ~staffList[i].canNightShift)
            /\ ~(staffList[i].nightShiftType = "weekday"
                 /\ (firstDow + d - 1) % 7 \in {0, 5, 6})

\* C7 witness: a returned table in which a weekday-only staff and a staff
\* with the legacy flag both hold NIGHT cells, and a Friday, Saturday or
\* Sunday night is missing although the weekday-only staff was free.
C7_Witness ==
    /\ Returned
    /\ \E i \in StaffIds :
        /\ staffList[i].nightShiftType = "" /\ staffList[i].canNightShift
        /\ \E d \in Days : allAssignments[i][d] = NIGHT
    /\ \E i \in StaffIds :
        /\ staffList[i].nightShiftType = "weekday"
        /\ \E d \in Days : allAssignments[i][d] = NIGHT
        /\ \E d \in 2..(DaysInMonth - 2) :
            /\ (firstDow + d - 1) % 7 \in {0, 5, 6}
            /\ \E q \in 1..Len(warnings) :
                warnings[q].k = "noNightStaff" /\ warnings[q].d = d
            /\ allAssignments[i][d - 1] # NIGHT
            /\ allAssignments[i][d] # NIGHT_OFF

\* C8: overtime cap: in the returned table every staff holds at most 6
\* OVERTIME cells.
C8_OvertimeCap ==
    Returned =>
        \A i \in StaffIds : countShiftType(allAssignments[i], OVERTIME) <= 6

\* C8 witness: a returned table in which a staff holds exactly 6 OVERTIME
\* cells (the strategic placements stop at TARGET_OT = 5, the sixth comes
\* from an upgrade).
C8_Witness ==
    /\ Returned
    /\ \E i \in StaffIds : countShiftType(allAssignments[i], OVERTIME) = 6

\* C9: overtime eligibility: in the returned table OVERTIME is held by no
\* part-timer and by no staff with canOvertime = false.
C9_OvertimeEligibility ==
    Returned =>
        \A i \in StaffIds : \A d \in Days :
            allAssignments[i][d] = OVERTIME =>
                staffList[i].type # "part" /\ staffList[i].canOvertime

\* C9 witness: a returned table with a day that is short at the evening on
\* which a full-timer without overtime holds EARLY (left as it is) while
\* another staff holds OVERTIME.
C9_Witness ==
    /\ Returned
    /\ \E d \in Days : \E i, j \in StaffIds :
        /\ ~staffList[i].canOvertime
        /\ staffList[i].type = "full"
        /\ allAssignments[i][d] = EARLY
        /\ allAssignments[j][d] = OVERTIME
        /\ countStaffAtTime(allAssignments, d, EveMinutes) < FloorRequired

\* C10: restricted-side eligibility: in the returned table a late-only
\* part-timer holds neither EARLY nor OVERTIME, an early-only part-timer
\* neither LATE nor OVERTIME.
C10_RestrictedSide ==
    Returned =>
        \A i \in StaffIds : \A d \in Days :
            /\ (staffList[i].type = "part" /\ staffList[i].lateOnly)
                   => allAssignments[i][d] \notin {EARLY, OVERTIME}
            /\ (staffList[i].type = "part" /\ staffList[i].earlyOnly)
                   => allAssignments[i][d] \notin {LATE, OVERTIME}

\* C10 witness: a returned table in which a late-only and an early-only
\* part-timer both work, on days that are short in the morning and evening.
C10_Witness ==
    /\ Returned
    /\ \E i, j \in StaffIds : \E d, e \in Days :
        /\ staffList[i].type = "part" /\ staffList[i].lateOnly
        /\ allAssignments[i][d] = PART
        /\ countStaffAtTime(allAssignments, d, MornMinutes) < FloorRequired
        /\ staffList[j].type = "part" /\ staffList[j].earlyOnly
        /\ allAssignments[j][e] = PART
        /\ countStaffAtTime(allAssignments, e, EveMinutes) < FloorRequired

\* C11: completeness: the table has one row per staff of staffList and none
\* for another id, every row has exactly the keys 1..daysInMonth, and every
\* cell holds one of the seven shift values; this holds for the returned
\* table and for every table the run passes through, whatever the requests
\* name.
C11_Completeness ==
    /\ DOMAIN allAssignments = StaffIds
    /\ \A i \in StaffIds :
        /\ DOMAIN allAssignments[i] = Days
        /\ \A d \in Days : allAssignments[i][d] \in SHIFT_TYPES

\* C11 witness: a returned table of a run whose requests name a staff id
\* that is not in staffList and, for a staff that works in the month, a day
\* after the end of the month.
C11_Witness ==
    /\ Returned
    /\ \E r \in DOMAIN requests : r \notin StaffIds /\ requests[r] # {}
    /\ \E i \in StaffIds :
        /\ \E d \in requests[i] : d > DaysInMonth
        /\ \E d \in Days : allAssignments[i][d] # OFF

\* The shortfall messages of a warnings list.
shortfalls(w) == {q \in 1..Len(w) : w[q].k = "coverage"}

\* C12: coverage warnings describe the result after all rescues: every
\* shortfall message of the returned warnings, for day D and checkpoint C
\* with n people, states the count of the returned table at (D, C), and n is
\* below the required head-count; a shortfall of phase 4 that a later phase
\* repaired or changed leaves no message.
C12_CoverageWarningsAreFinal ==
    Returned =>
        \A q \in shortfalls(warnings) :
            /\ countStaffAtTime(allAssignments, warnings[q].d, warnings[q].c)
                   = warnings[q].n
            /\ warnings[q].n < warnings[q].r

\* C13: every remaining shortfall is reported: for every day D and checkpoint
\* C at which the returned table counts fewer than 4 people, the returned
\* warnings hold the shortfall message of (D, C) that states this count.
C13_ShortfallsReported ==
    Returned =>
        \A d \in Days : \A c \in {MornMinutes, NoonMinutes, EveMinutes} :
            countStaffAtTime(allAssignments, d, c) < 4 =>
                \E q \in shortfalls(warnings) :
                    /\ warnings[q].d = d
                    /\ warnings[q].c = c
                    /\ warnings[q].n = countStaffAtTime(allAssignments, d, c)

\* C13 witness: a returned table with a (day, checkpoint) whose count is below
\* 4 and differs from the count phase 4 reported for it, so that the message
\* with the final count is one that phase 6 added.
C13_Witness ==
    /\ Returned
    /\ \E d \in Days : \E c \in {MornMinutes, NoonMinutes, EveMinutes} :
        /\ countStaffAtTime(allAssignments, d, c) < 4
        /\ \E q \in shortfalls(warnings) :
            /\ warnings[q].d = d
            /\ warnings[q].c = c
            /\ warnings[q].n # countStaffAtTime(allAssignments, d, c)

\* The off-day warnings of the warnings list that name staff i.
offDayWarningsOf(i) ==
    {q \in 1..Len(warnings) : warnings[q].k = "offDays" /\ warnings[q].s = i}

\* C14: off-day warning: the returned warnings hold an off-day warning naming
\* staff s if and only if the OFF cells of s in the returned table (NIGHT_OFF
\* not counted) are strictly fewer than the off-day target of s; the warning
\* states that number and the target.
C14_OffDayWarning ==
    Returned =>
        \A i \in StaffIds :
            LET off == Cardinality({d \in Days : allAssignments[i][d] = OFF})
                target == IF staffList[i].monthlyDaysOff # 0
                          THEN staffList[i].monthlyDaysOff ELSE 9
            IN /\ (offDayWarningsOf(i) # {}) <=> (off < target)
               /\ \A q \in offDayWarningsOf(i) :
                    warnings[q].n = off /\ warnings[q].r = target

\* C14 witness: a returned table in which one staff was pushed below the
\* target by phase 2 nights and is warned, and another staff ends above the
\* target and is not warned.
C14_Witness ==
    /\ Returned
    /\ \E i, j \in StaffIds :
        /\ countOffDays(allAssignments[i]) < TargetOff(staffList[i])
        /\ countShiftType(allAssignments[i], NIGHT_OFF) > 0
        /\ offDayWarningsOf(i) # {}
        /\ countOffDays(allAssignments[j]) > TargetOff(staffList[j])
        /\ offDayWarningsOf(j) = {}

\* Staff holding NIGHT on day d, and the unmet-night warnings naming day d.
nightHolders(a, d) == {i \in StaffIds : a[i][d] = NIGHT}

unmetNights(w, d) == {q \in 1..Len(w) : w[q].k = "noNightStaff" /\ w[q].d = d}

\* The days phase 2 has dealt with.
nightDaysDone == IF pc = "phase2" THEN 1..(day - 1) ELSE Days

\* A step that adds an unmet-night warning for day d leaves a table in which
\* no staff passes canAssignNight for d (the passes of the loop after the
\* warning find the same table).
UnmetOnlyWithoutCandidate ==
    \A d \in Days :
        Cardinality(unmetNights(warnings', d)) > Cardinality(unmetNights(warnings, d))
            => \A i \in StaffIds :
                   ~(/\ staffList[i].type # "part"
                     /\ canAssignNight(i, allAssignments'[i], d))

\* C15: night quota accounting: for every day d, the number of staff holding
\* NIGHT on d plus the number of unmet-night warnings naming d equals the
\* required night head-count of d (sundayNightRequired on Sundays,
\* nightRequired otherwise), in the returned table and from the moment
\* phase 2 has dealt with d; and an unmet-night warning for d is emitted
\* only when no staff passes canAssignNight for d.
C15_NightQuota ==
    /\ [](\A d \in Days :
            Cardinality(nightHolders(allAssignments, d))
            + Cardinality(unmetNights(warnings, d))
                = IF d \in nightDaysDone
                  THEN (IF (firstDow + d - 1) % 7 = 0
                        THEN settings.sundayNightRequired
                        ELSE settings.nightRequired)
                  ELSE 0)
    /\ [][UnmetOnlyWithoutCandidate]_vars

\* C15 witness: a returned table of a run that requires two nights a day and
\* none on Sundays, with a day that has one NIGHT and one unmet-night
\* warning, a day with two warnings and a day with two NIGHT cells.
C15_Witness ==
    /\ Returned
    /\ settings.nightRequired = 2
    /\ settings.sundayNightRequired = 0
    /\ \E d, e, f \in Days :
        /\ Cardinality(nightHolders(allAssignments, d)) = 1
        /\ Cardinality(unmetNights(warnings, d)) = 1
        /\ Cardinality(unmetNights(warnings, e)) = 2
        /\ Cardinality(nightHolders(allAssignments, f)) = 2

\* The phase 4 step of a Sunday that leaves the morning or the noon count of
\* that Sunday at 3 adds one to the Sunday-relaxation counter.
SundayAtThreeIsCounted ==
    (/\ pc = "phase4"
     /\ (firstDow + day - 1) % 7 = 0
     /\ \/ countStaffAtTime(allAssignments', day, MornMinutes) = 3
        \/ countStaffAtTime(allAssignments', day, NoonMinutes) = 3)
        => sundayReducedCount' = sundayReducedCount + 1

\* C16: Sunday-relaxation budget: during phase 4 the Sunday-relaxation
\* counter goes up by one each time a Sunday finishes with a morning or noon
\* count of 3 and never exceeds 3, so the relaxed floor of 3 is applied on at
\* most 3 Sundays of the month.
C16_SundayBudget ==
    /\ [][SundayAtThreeIsCounted]_vars
    /\ [](sundayReducedCount <= MAX_SUNDAY_REDUCED)

\* The warnings of kind k that validateSchedule gives for staff i on table a.
validationOf(a, i, k) ==
    {q \in 1..Len(validateSchedule(a)) :
        validateSchedule(a)[q].k = k /\ validateSchedule(a)[q].s = i}

\* C17: validator consecutive threshold: validateSchedule, applied to the
\* returned table, gives a consecutive-run warning for a staff exactly when
\* the row holds a workday run longer than the staff's documented limit plus
\* one if +1 overruns are allowed; a run of exactly limit + 1 of a staff that
\* allows +1 overruns gives no warning.
C17_ValidatorConsecutive ==
    Returned =>
        \A i \in StaffIds :
            (validationOf(allAssignments, i, "consecutive") # {})
                <=> (\E d \in Days : runEndingAt(allAssignments[i], d) > capOf(i))

Validated == pc = "validated"

\* The night capability of a staff is none: by nightShiftType, or by the
\* legacy flag when no type is given.
capabilityNone(i) ==
    \/ staffList[i].nightShiftType = "none"
    \/ staffList[i].nightShiftType = "" /\ ~staffList[i].canNightShift

\* The kinds of eligibility warning that cell (i, d) of the table deserves.
deservedKinds(i, d) ==
    LET cell == allAssignments[i][d]
        part == staffList[i].type = "part"
    IN {k \in {"nightNotAllowed"} : cell = NIGHT /\ (part \/ capabilityNone(i))}
       \cup {k \in {"nightWeekdayOnly"} :
                /\ cell = NIGHT
                /\ staffList[i].nightShiftType = "weekday"
                /\ (firstDow + d - 1) % 7 \in {0, 5, 6}}
       \cup {k \in {"noNightOff"} :
                /\ cell = NIGHT
                /\ d < DaysInMonth
                /\ allAssignments[i][d + 1] # NIGHT_OFF}
       \cup {k \in {"overtimeNotAllowed"} :
                cell = OVERTIME /\ (part \/ ~staffList[i].canOvertime)}
       \cup {k \in {"lateOnly"} :
                part /\ staffList[i].lateOnly /\ cell \in {EARLY, OVERTIME}}
       \cup {k \in {"earlyOnly"} :
                part /\ staffList[i].earlyOnly /\ cell \in {LATE, OVERTIME}}

EligibilityKinds ==
    {"nightNotAllowed", "nightWeekdayOnly", "noNightOff", "overtimeNotAllowed",
     "lateOnly", "earlyOnly"}

\* C18: validator eligibility checks: validateSchedule, called on any table,
\* returns a warning for every cell that is NIGHT on a part-timer or a staff
\* without night capability, NIGHT on a Friday, Saturday or Sunday of a
\* weekday-only staff, NIGHT before the last day without NIGHT_OFF on the
\* next day, OVERTIME on a part-timer or a staff that cannot work overtime,
\* EARLY or OVERTIME on a late-only part-timer, LATE or OVERTIME on an
\* early-only part-timer; and it returns none of these warnings for a table
\* without such a cell.
C18_ValidatorEligibility ==
    Validated =>
        /\ \A i \in StaffIds : \A d \in Days : \A k \in deservedKinds(i, d) :
                \E q \in 1..Len(warnings) :
                    warnings[q].k = k /\ warnings[q].s = i /\ warnings[q].d = d
        /\ (\A i \in StaffIds : \A d \in Days : deservedKinds(i, d) = {})
               => \A q \in 1..Len(warnings) : warnings[q].k \notin EligibilityKinds

\* C18 witness: a validated table of a weekday-only staff with NIGHT on the
\* last two days of the month, one of them on a Friday, Saturday or Sunday:
\* the first NIGHT lacks its NIGHT_OFF, the NIGHT on the last day needs none.
C18_Witness ==
    /\ Validated
    /\ staffList[1].nightShiftType = "weekday"
    /\ allAssignments[1][DaysInMonth - 1] = NIGHT
    /\ allAssignments[1][DaysInMonth] = NIGHT
    /\ \E q \in 1..Len(warnings) :
        warnings[q].k = "noNightOff" /\ warnings[q].d = DaysInMonth - 1
    /\ \E q \in 1..Len(warnings) : warnings[q].k = "nightWeekdayOnly"
    /\ ~\E q \in 1..Len(warnings) :
        warnings[q].k = "noNightOff" /\ warnings[q].d = DaysInMonth

\* C19: round trip: every warning that validateSchedule gives for the
\* returned table, with the staff list and settings of the run, is one of
\* the warnings the run returned.
C19_RoundTrip ==
    Returned =>
        \A q \in 1..Len(validateSchedule(allAssignments)) :
            \E r \in 1..Len(warnings) :
                warnings[r] = validateSchedule(allAssignments)[q]

\* C19 witness: a returned table for which validateSchedule gives warnings,
\* next to warnings of the run that validateSchedule does not give.
C19_Witness ==
    /\ Returned
    /\ validateSchedule(allAssignments) # <<>>
    /\ Len(warnings) > Len(validateSchedule(allAssignments))

\* C21: single-staff scenario: for a roster of one full-timer without night
\* capability, with overtime and an off-day target of 9, and no requests,
\* the run returns (it does not raise) a table in which the staff has 9 OFF
\* days and works the other days of the month, with no workday run longer
\* than 5 and no NIGHT cell, and the warnings hold a morning, a noon and an
\* evening shortfall message for every day.
C21_SingleStaff ==
    (staffList = SoloRoster /\ requests = NoRequests(SoloRoster)) =>
        /\ ~Raised
        /\ Returned =>
               /\ countOffDays(allAssignments[1]) = 9
               /\ countWorkDays(allAssignments[1]) = DaysInMonth - 9
               /\ \A d \in Days : runEndingAt(allAssignments[1], d) <= 5
               /\ \A d \in Days : allAssignments[1][d] # NIGHT
               /\ \A d \in Days : \A c \in {MornMinutes, NoonMinutes, EveMinutes} :
                      \E q \in shortfalls(warnings) :
                          warnings[q].d = d /\ warnings[q].c = c

Edited == pc = "edited"

\* C22: no commit by getShiftChangeWarnings: the call leaves every cell of
\* the table it was given as it was, the probed cell included.
C22_EditCommitsNothing == [][allAssignments' = allAssignments]_vars

\* C22 witness: a finished probe of a shift that differs from the cell's
\* shift and draws a warning; the cell still holds its shift.
C22_Witness ==
    /\ Edited
    /\ allAssignments[idx][day] = EARLY
    /\ newShift = NIGHT
    /\ warnings # <<>>

editedRow == setCell(allAssignments[idx], day, newShift)

editKinds == {warnings[q].k : q \in DOMAIN warnings}

\* C23: content of the edit warnings: a consecutive message iff the row with
\* the probed shift has a workday run above the staff's documented
\* consecutive limit; a night message iff the shift is NIGHT and the staff is
\* part, has no night capability, or is weekday-only on a Fri/Sat/Sun; an
\* early/late-only message iff EARLY on a late-only part, LATE on an
\* early-only part, or OVERTIME on either; an overtime message iff OVERTIME
\* and the staff is part or cannot do overtime; and no other message.
C23_EditWarningsContent ==
    Edited =>
        LET staff == staffList[idx]
            part == staff.type = "part"
        IN /\ ("consecutive" \in editKinds) <=>
                  \E d \in Days : runEndingAt(editedRow, d) > effectiveMaxConsecutive(idx)
           /\ (editKinds \cap {"nightNotAllowed", "nightWeekdayOnly", "partNoNight"} # {}) <=>
                  /\ newShift = NIGHT
                  /\ \/ part
                     \/ capabilityNone(idx)
                     \/ staff.nightShiftType = "weekday" /\ isFriSatSun(day)
           /\ (editKinds \cap {"earlyOnly", "lateOnly"} # {}) <=>
                  \/ newShift = EARLY /\ part /\ staff.lateOnly
                  \/ newShift = LATE /\ part /\ staff.earlyOnly
                  \/ newShift = OVERTIME /\ part /\ (staff.earlyOnly \/ staff.lateOnly)
           /\ (editKinds \cap {"overtimeNotAllowed", "partNoOvertime"} # {}) <=>
                  newShift = OVERTIME /\ (part \/ ~staff.canOvertime)
           /\ editKinds \subseteq {"consecutive", "nightNotAllowed", "nightWeekdayOnly",
                                    "partNoNight", "earlyOnly", "lateOnly",
                                    "overtimeNotAllowed", "partNoOvertime"}

\* C24: inputs are not modified: when generateSchedule has returned, the
\* staff records (the hours of a part-timer supplied without hours
\* included) and the requests are the ones the call was given.
C24_InputsUnmodified ==
    Returned => \E sc \in Scenarios : staffList = sc.staff /\ requests = sc.req

\* C25: monotone placement: no step of a run sets a cell that is not OFF back
\* to OFF; a cell that is not OFF changes only from one of EARLY, LATE,
\* OVERTIME to another of them; and no staff's workday count decreases.
C25_MonotonePlacement ==
    [][\A i \in DOMAIN allAssignments :
         /\ \A d \in Days :
               (allAssignments[i][d] # OFF /\ allAssignments'[i][d] # allAssignments[i][d])
                   => /\ allAssignments[i][d] \in DayShifts
                      /\ allAssignments'[i][d] \in DayShifts
         /\ countWorkDays(allAssignments'[i]) >= countWorkDays(allAssignments[i])]_vars

\* C25 witness: a returned table on which the later phases have acted: the
\* fifth staff of SwapRoster, to whom phase 5 gave LATE cells only, holds
\* EARLY cells from the phase 5.8 swap next to the LATE cells that are left,
\* on days that the OVERTIME cells of phase 4 still cover.
C25_Witness ==
    /\ Returned
    /\ staffList = SwapRoster
    /\ \E d, e \in Days :
          /\ allAssignments[5][d] = EARLY
          /\ allAssignments[5][e] = LATE
          /\ \A i \in 1..4 : allAssignments[i][d] = OVERTIME /\ allAssignments[i][e] = OVERTIME

cellsPlaced(a, b) ==
    Cardinality({c \in (DOMAIN a) \X Days : a[c[1]][c[2]] = OFF /\ b[c[1]][c[2]] # OFF})

\* Every pass of the rescue loop of checkpoint c on day d that does not leave
\* the loop raises the count at c.
RECURSIVE RescueProgress(_, _, _, _)
RescueProgress(a, plus1Used, d, c) ==
    \/ countStaffAtTime(a, d, TIME_CHECKPOINTS[c].minutes) >= RequiredAt(d, c)
    \/ \A y \in RescueStep(a, plus1Used, d, c) :
          y.r = "rescued" =>
              /\ countStaffAtTime(y.a, d, TIME_CHECKPOINTS[c].minutes)
                     > countStaffAtTime(a, d, TIME_CHECKPOINTS[c].minutes)
              /\ RescueProgress(y.a, plus1Used, d, c)

RECURSIVE RescueDayProgress(_, _, _, _)
RescueDayProgress(a, plus1Used, d, c) ==
    \/ c > Len(TIME_CHECKPOINTS)
    \/ /\ RescueProgress(a, plus1Used, d, c)
       /\ \A y \in RescueLoop(a, plus1Used, d, c) :
             y.r # "raised" => RescueDayProgress(y.a, plus1Used, d, c + 1)

RunningPhases ==
    {"phase2", "phase3", "phase35", "phase4", "phase5", "phase55", "phase58",
     "phase6"}

\* C26: termination: every run of generateSchedule goes on through its
\* phases until it returns, and stops nowhere else; every pass of the phase 5
\* loop places one shift, which lowers the staff's work gap by one, or leaves
\* the loop; every pass of a phase 5.5 rescue loop raises the count at its
\* checkpoint or leaves the loop; phase 3.5 makes at most 20 passes, each of
\* which places one shift.
C26_Termination ==
    /\ [](pc \in RunningPhases \/ Returned)
    /\ [][pc = "phase5" =>
             \/ /\ cellsPlaced(allAssignments, allAssignments') = 1
                /\ getWorkGap(allAssignments', idx) = getWorkGap(allAssignments, idx) - 1
             \/ /\ allAssignments' = allAssignments
                /\ <<pc, idx>>' # <<pc, idx>>]_vars
    /\ [](pc = "phase55" =>
             RescueDayProgress(allAssignments, consecutivePlus1Used, day, 1))
    /\ [][pc = "phase35" =>
             cellsPlaced(allAssignments, allAssignments') <= MaxIter35]_vars

\* C27: canWorkOnDay(staff, day) is true iff the cell is OFF and, with total
\* = the workday run ending the day before + 1 + the workday run starting the
\* day after, total is at most the staff's documented consecutive limit, or
\* total is the limit + 1 and the staff allows the +1 overrun and has used it
\* less than twice.
C27_CanWorkOn ==
    \A i \in StaffIds : \A d \in Days :
        LET row == allAssignments[i]
            max == effectiveMaxConsecutive(i)
            total == runEndingAt(row, d - 1) + 1
                     + getForwardConsecutiveWorkDays(row, d + 1)
        IN canWorkOnDay(i, row, d, consecutivePlus1Used) <=>
               /\ row[d] = OFF
               /\ \/ total <= max
                  \/ /\ total = max + 1
                     /\ staffList[i].allowConsecutivePlus1
                     /\ consecutivePlus1Used[i] < 2

\* C28: canAssignNight(staff, day) is true iff the staff is full-time with a
\* night capability, is not weekday-only on a Fri/Sat/Sun, the cells of day,
\* day + 1 and day + 2 that lie in the month are OFF, the workday run ending
\* the day before is shorter than the staff's documented consecutive limit,
\* and that run + 1 + the run starting at day + 2 is at most the limit; the
\* +1 overrun is never applied.
C28_CanAssignNight ==
    \A i \in StaffIds : \A d \in Days :
        LET row == allAssignments[i]
            max == effectiveMaxConsecutive(i)
            past == runEndingAt(row, d - 1)
            forward == getForwardConsecutiveWorkDays(row, d + 2)
        IN canAssignNight(i, row, d) <=>
               /\ staffList[i].type # "part"
               /\ ~capabilityNone(i)
               /\ ~(staffList[i].nightShiftType = "weekday" /\ isFriSatSun(d))
               /\ \A e \in {d, d + 1, d + 2} \cap Days : row[e] = OFF
               /\ past < max
               /\ past + 1 + forward <= max

\* C29: getStaffMaxConsecutive gives every staff the documented limit: the
\* override when it is positive, else 2 for a full-timer with a night
\* capability, also when only the legacy canNightShift flag gives it, else
\* the global default.
C29_EffectiveMaxConsecutive ==
    \A i \in StaffIds : getStaffMaxConsecutive(staffList[i]) = effectiveMaxConsecutive(i)

\* One step on one row: row before, row after, monthly off-day target.
floorKept(row, after, target) ==
    /\ (\E d \in Days : row[d] = OFF /\ after[d] # OFF)
           => countOffDays(row) > target
    /\ countOffDays(after) < countOffDays(row)
           => countOffDays(after) >= target
    /\ countOffDays(row) <= target
           => \A d \in Days :
                  after[d] # row[d] => (row[d] \in {EARLY, LATE} /\ after[d] = OVERTIME)

\* C30: off-day floor: a step of phase 4, 5 or 5.5 turns an OFF cell of a
\* staff into a work shift only if the staff has more OFF cells than the
\* monthly target, so it never takes the OFF count below the target; the only
\* change it makes to the row of a staff at the floor is an upgrade of an
\* EARLY or LATE cell to OVERTIME.
C30_OffDayFloor ==
    [][(pc \in {"phase4", "phase5", "phase55"}) =>
         \A i \in StaffIds :
             floorKept(allAssignments[i], allAssignments'[i], TargetOff(staffList[i]))]_vars

\* C30 witness: a returned table in which the floor has stopped a placement:
\* a full-timer is exactly at the target and is left OFF on a day that is
\* short in the morning, that was not requested off and that the
\* consecutive limit would allow.
C30_Witness ==
    /\ Returned
    /\ \E i \in fullStaff : \E d \in Days :
          /\ countOffDays(allAssignments[i]) = TargetOff(staffList[i])
          /\ countWorkDays(allAssignments[i]) > 0
          /\ allAssignments[i][d] = OFF
          /\ ~requestedDays(i, d)
          /\ canWorkOnDay(i, allAssignments[i], d, consecutivePlus1Used)
          /\ countStaffAtTime(allAssignments, d, MornMinutes) < FloorRequired

\* The order cands of the candidates of one fill step, of which the first k
\* are taken: larger work gap first, the count of shiftType ascending among
\* equal gaps, and nobody left out has a larger gap than somebody taken.
fillOrderKept(a, cands, k, shiftType) ==
    LET n == Cardinality(DOMAIN cands)
    IN /\ \A q \in 1..n : \A r \in 1..n :
             q < r =>
                 \/ getWorkGap(a, cands[q]) > getWorkGap(a, cands[r])
                 \/ /\ getWorkGap(a, cands[q]) = getWorkGap(a, cands[r])
                    /\ countShiftType(a[cands[q]], shiftType)
                           <= countShiftType(a[cands[r]], shiftType)
       /\ \A q \in 1..k : \A r \in (k + 1)..n :
             getWorkGap(a, cands[q]) >= getWorkGap(a, cands[r])

\* C31: phase 4 fill order: the candidates for the EARLY fill of the morning
\* and for the LATE fill of the evening are taken by larger work gap first,
\* the EARLY (LATE) count only breaking ties, so that no available
\* candidate with a larger gap is passed over for one with a smaller gap.
C31_FillOrder ==
    pc = "phase4" =>
        \A x \in Phase4Strategic(Phase4Start(allAssignments, consecutivePlus1Used, day), day) :
            /\ x.m > 0 =>
                   \A cands \in sortBalanced(x.a, getAvailableFull(x.a, x.p, day), EARLY) :
                       fillOrderKept(x.a, cands, Min2(x.m, Cardinality(DOMAIN cands)), EARLY)
            /\ \A y \in Phase4Early(x, day) :
                   y.e > 0 =>
                       \A cands \in sortBalanced(y.a, getAvailableFull(y.a, y.p, day), LATE) :
                           fillOrderKept(y.a, cands, Min2(y.e, Cardinality(DOMAIN cands)), LATE)

\* C32: phase 5.8 keeps the coverage floor: a cell that a step of the
\* early/late balancing has changed is an EARLY that became LATE or a LATE
\* that became EARLY, on a day that has at least 4 people in the morning and
\* in the evening after the step; a morning or evening count of at least 4
\* stays at least 4, and no noon count changes.
C32_SwapKeepsFloor ==
    [][pc = "phase58" =>
         /\ \A i \in StaffIds : \A d \in Days :
                allAssignments'[i][d] # allAssignments[i][d] =>
                    /\ {allAssignments[i][d], allAssignments'[i][d]} = {EARLY, LATE}
                    /\ countStaffAtTime(allAssignments', d, MornMinutes) >= FloorRequired
                    /\ countStaffAtTime(allAssignments', d, EveMinutes) >= FloorRequired
         /\ \A d \in Days :
                /\ countStaffAtTime(allAssignments, d, MornMinutes) >= FloorRequired
                       => countStaffAtTime(allAssignments', d, MornMinutes) >= FloorRequired
                /\ countStaffAtTime(allAssignments, d, EveMinutes) >= FloorRequired
                       => countStaffAtTime(allAssignments', d, EveMinutes) >= FloorRequired
                /\ countStaffAtTime(allAssignments', d, NoonMinutes)
                       = countStaffAtTime(allAssignments, d, NoonMinutes)]_vars

\* C32 witness: phase 5.8 is over and has kept a swap: the fifth staff of
\* SwapRoster, who came with LATE cells only, holds EARLY on a day that still
\* has 4 people in the morning and in the evening.
C32_Witness ==
    /\ pc = "phase6"
    /\ staffList = SwapRoster
    /\ \E d \in Days :
          /\ allAssignments[5][d] = EARLY
          /\ countStaffAtTime(allAssignments, d, MornMinutes) >= FloorRequired
          /\ countStaffAtTime(allAssignments, d, EveMinutes) >= FloorRequired

----------------------------------------------------------------------------
(* C33: the day and the shift of a phase 5 placement on a short day *)

totalShortfall(a, d) ==
    Max2(0, 4 - countStaffAtTime(a, d, MornMinutes))
    + Max2(0, 4 - countStaffAtTime(a, d, NoonMinutes))
    + Max2(0, 4 - countStaffAtTime(a, d, EveMinutes))

\* Staff i gets `shift` on day d of table a, a day that is short.
topUpKept(a, plus1Used, i, d, shift) ==
    LET short(minutes) == countStaffAtTime(a, d, minutes) < 4
        after == [a EXCEPT ![i][d] = shift]
    IN /\ d \in topUpDays(a, plus1Used, i)
       /\ \A e \in topUpDays(a, plus1Used, i) : totalShortfall(a, e) <= totalShortfall(a, d)
       /\ shift \in {EARLY, LATE}
       /\ \E minutes \in {MornMinutes, NoonMinutes, EveMinutes} :
              /\ short(minutes)
              /\ countStaffAtTime(after, d, minutes) > countStaffAtTime(a, d, minutes)
       /\ (short(EveMinutes) /\ ~short(MornMinutes) /\ ~short(NoonMinutes)) => shift = LATE
       /\ (short(MornMinutes) /\ ~short(NoonMinutes) /\ ~short(EveMinutes)) => shift = EARLY

\* C33: when phase 5 places a shift for a full-timer on a day whose total
\* shortfall is positive, that day has the largest total shortfall among the
\* staff's candidate days, and the shift is EARLY or LATE and raises at
\* least one checkpoint that was below 4 (LATE when only the evening is
\* short, EARLY when only the morning is short).
C33_TopUpChoice ==
    [][(pc = "phase5") =>
          \A d \in Days :
              (allAssignments'[idx][d] # allAssignments[idx][d]
               /\ totalShortfall(allAssignments, d) > 0)
              => /\ allAssignments' = [allAssignments EXCEPT ![idx][d] = allAssignments'[idx][d]]
                 /\ topUpKept(allAssignments, consecutivePlus1Used, idx, d,
                              allAssignments'[idx][d])]_vars

\* Phase 5 has given a full-timer EARLY on a Sunday that phase 4 left with
\* the three part-timers alone at 7:00.
C33_Witness ==
    /\ pc = "phase5"
    /\ staffList = SundayRoster
    /\ \E d \in Days :
          /\ isSunday(d)
          /\ \A i \in partStaff : allAssignments[i][d] = PART
          /\ allAssignments[idx][d] = EARLY
          /\ countStaffAtTime(allAssignments, d, MornMinutes) = 4

----------------------------------------------------------------------------
(* C34: whom an iteration of phase 3.5 gives one more PART shift *)

surplus(a, i) == countOffDays(a[i]) - TargetOff(staffList[i])

\* Every iteration from table a on gives the PART shift to a part-timer of
\* largest surplus among those above their own target.
RECURSIVE largestSurplusChosen(_, _, _)
largestSurplusChosen(a, plus1Used, iter) ==
    LET after == Equalize(a, plus1Used)
    IN IF iter >= MaxIter35 \/ after = a THEN TRUE
       ELSE /\ \A i \in partStaff :
                  after[i] # a[i]
                  => /\ surplus(a, i) > 0
                     /\ \A j \in partStaff : surplus(a, j) <= surplus(a, i)
            /\ largestSurplusChosen(after, plus1Used, iter + 1)

\* C34: in each iteration of phase 3.5 the part-timer who receives one more
\* PART shift has, among the part-timers whose OFF count exceeds their own
\* target, the largest surplus (OFF count minus off-day target), whatever
\* the number of part-timers and also when their targets differ.
C34_LargestSurplus ==
    pc = "phase35" => largestSurplusChosen(allAssignments, consecutivePlus1Used, 0)

----------------------------------------------------------------------------
(* C35: whom a pass of phase 2 gives the NIGHT *)

\* Every remaining pass on day d from x = [a, w] on gives the NIGHT to a
\* staff who does not hold one on d yet and whose NIGHT count is least among
\* all staff that pass canAssignNight on d.
RECURSIVE nightFair(_, _, _)
nightFair(x, d, n) ==
    IF n <= 0 THEN TRUE
    ELSE \A y \in NightStep(x, d) :
             /\ \A i \in StaffIds :
                    y.a[i] # x.a[i]
                    => /\ x.a[i][d] # NIGHT
                       /\ y.a[i][d] = NIGHT
                       /\ \A j \in StaffIds :
                              canAssignNight(j, x.a[j], d)
                              => countShiftType(x.a[i], NIGHT) <= countShiftType(x.a[j], NIGHT)
             /\ Cardinality({i \in StaffIds : y.a[i] # x.a[i]}) <= 1
             /\ nightFair(y, d, n - 1)

\* C35: whenever phase 2 assigns NIGHT on a day, the chosen staff has the
\* least NIGHT count of the month among all staff that pass canAssignNight
\* for that day at that moment, and no staff is given NIGHT twice on one day
\* when more than one night worker is required.
C35_NightFairness ==
    pc = "phase2" =>
        nightFair([a |-> allAssignments, w |-> warnings], day, NightRequiredOn(day))

\* Two staff hold NIGHT on the same day, and the NIGHT counts of the roster
\* differ by then.
C35_Witness ==
    /\ pc = "phase2"
    /\ \E d \in Days : \E i, j \in StaffIds :
          /\ i # j
          /\ allAssignments[i][d] = NIGHT
          /\ allAssignments[j][d] = NIGHT
    /\ \E i, j \in nightEligible :
          countShiftType(allAssignments[i], NIGHT) < countShiftType(allAssignments[j], NIGHT)

----------------------------------------------------------------------------
(* C36: the work gap and the off-day floor measure the same distance *)

\* The tables of day d on which phase 4 asks for the available full-timers:
\* at the start, after the strategic OVERTIME, after the EARLY and the LATE
\* fill.
tablesOfDay(a, plus1Used, d) ==
    LET s0 == {Phase4Start(a, plus1Used, d)}
        s1 == Phase4Strategic(Phase4Start(a, plus1Used, d), d)
        s2 == UNION {Phase4Early(x, d) : x \in s1}
        s3 == UNION {Phase4Late(x, d) : x \in s2}
    IN s0 \cup s1 \cup s2 \cup s3

\* C36: from phase 3 on, for every staff the work gap equals the number of
\* OFF cells minus the off-day target, so the gap is positive exactly when
\* the staff is strictly above the off-day floor; every full-timer the
\* phase 4 availability filter returns has a positive gap, and the floor
\* check of the phase 5 loop never stops a staff whose gap is positive.
C36_GapFloorIdentity ==
    /\ pc # "phase2" =>
          \A i \in StaffIds :
              /\ getWorkGap(allAssignments, i)
                    = countOffDays(allAssignments[i]) - TargetOff(staffList[i])
              /\ getWorkGap(allAssignments, i) > 0
                    <=> countOffDays(allAssignments[i]) > TargetOff(staffList[i])
    /\ pc = "phase4" =>
          \A x \in tablesOfDay(allAssignments, consecutivePlus1Used, day) :
              \A i \in getAvailableFull(x.a, x.p, day) : getWorkGap(x.a, i) > 0
    /\ (pc = "phase5" /\ idx \in fullStaff /\ getWorkGap(allAssignments, idx) > 0)
          => countOffDays(allAssignments[idx]) > TargetOff(staffList[idx])

\* Phase 4 finds a full-timer available who holds NIGHT_OFF cells besides
\* day shifts.
C36_Witness ==
    /\ pc = "phase4"
    /\ \E i \in getAvailableFull(allAssignments, consecutivePlus1Used, day) :
          /\ countShiftType(allAssignments[i], NIGHT_OFF) > 0
          /\ countWorkDays(allAssignments[i]) > countShiftType(allAssignments[i], NIGHT)

----------------------------------------------------------------------------
(* C37: the +1 overrun tracker *)

\* The step raises the tracker of staff i: by one, in phase 4, with a day
\* shift on the day at hand that makes the run longer than the maximum.
overrunCounted(i) ==
    LET row == allAssignments[i]
        total == getConsecutiveWorkDays(row, day - 1) + 1
                 + getForwardConsecutiveWorkDays(row, day + 1)
    IN /\ consecutivePlus1Used'[i] = consecutivePlus1Used[i] + 1
       /\ pc = "phase4"
       /\ row[day] = OFF
       /\ allAssignments'[i][day] \in {EARLY, LATE, OVERTIME}
       /\ total > getStaffMaxConsecutive(staffList[i])
       /\ total > effectiveMaxConsecutive(i)

\* C37: each staff's +1 overrun counter is between 0 and 2 in every state,
\* is never decremented, and stays 0 for every staff without
\* allowConsecutivePlus1; it is incremented only by an EARLY/LATE placement
\* of phase 4 that makes past + 1 + forward exceed the effective maximum
\* (the placed EARLY or LATE may be upgraded to OVERTIME later on the day).
C37_PlusOneCounter ==
    /\ [](\A i \in StaffIds :
             /\ consecutivePlus1Used[i] \in 0..MAX_CONSECUTIVE_PLUS1
             /\ ~staffList[i].allowConsecutivePlus1 => consecutivePlus1Used[i] = 0)
    /\ [][\A i \in StaffIds :
             /\ consecutivePlus1Used'[i] >= consecutivePlus1Used[i]
             /\ consecutivePlus1Used'[i] # consecutivePlus1Used[i] => overrunCounted(i)]_vars

\* A staff has used the +1 overrun twice.
C37_Witness ==
    \E i \in StaffIds : consecutivePlus1Used[i] = MAX_CONSECUTIVE_PLUS1

----------------------------------------------------------------------------
(* C38: NIGHT_OFF follows a NIGHT of the same staff *)

\* C38: in every state a cell is NIGHT_OFF only on a day d >= 2 whose
\* previous day holds the same staff's NIGHT; hence no staff holds NIGHT on
\* two consecutive days, and each staff has as many NIGHT_OFF cells as NIGHT
\* cells on days before the last day of the month.
C38_NightOffAfterNight ==
    \A i \in StaffIds :
        /\ \A d \in Days :
              allAssignments[i][d] = NIGHT_OFF
              => d >= 2 /\ allAssignments[i][d - 1] = NIGHT
        /\ \A d \in 1..(DaysInMonth - 1) :
              ~(allAssignments[i][d] = NIGHT /\ allAssignments[i][d + 1] = NIGHT)
        /\ countShiftType(allAssignments[i], NIGHT_OFF)
              = Cardinality({d \in 1..(DaysInMonth - 1) : allAssignments[i][d] = NIGHT})

\* After phase 2 a staff holds the NIGHT of the last day, which has no
\* NIGHT_OFF, besides earlier NIGHTs with theirs, and day shifts are placed.
C38_Witness ==
    /\ pc \notin {"phase2", "phase3", "phase35", "phase4"}
    /\ \E i \in StaffIds :
          /\ allAssignments[i][DaysInMonth] = NIGHT
          /\ countShiftType(allAssignments[i], NIGHT_OFF) >= 2
          /\ countShiftType(allAssignments[i], NIGHT)
                = countShiftType(allAssignments[i], NIGHT_OFF) + 1
          /\ \E d \in Days : allAssignments[i][d] \in {EARLY, LATE, OVERTIME}

----------------------------------------------------------------------------
(* C39: the shifts a part-timer and a full-timer can hold *)

\* C39: in every state the row of a part-timer contains only OFF and PART
\* and the row of a full-timer never contains PART; in particular a cell
\* that phase 5.5 fills becomes EARLY or LATE for a full-timer and PART for
\* a part-timer.
C39_ShiftAlphabet ==
    /\ [](\A i \in StaffIds : \A d \in Days :
             IF staffList[i].type = "part"
             THEN allAssignments[i][d] \in {OFF, PART}
             ELSE allAssignments[i][d] \in SHIFT_TYPES \ {PART})
    /\ [][(pc = "phase55") =>
             \A i \in StaffIds : \A d \in Days :
                 (allAssignments[i][d] = OFF /\ allAssignments'[i][d] # OFF)
                 => IF staffList[i].type = "part"
                    THEN allAssignments'[i][d] = PART
                    ELSE allAssignments'[i][d] \in {EARLY, LATE}]_vars

\* The rescue has given a part-timer a PART shift beyond the weekly limit
\* that phases 3 and 3.5 keep, next to a full-timer with day shifts.
C39_Witness ==
    /\ pc \in {"phase55", "phase58", "phase6", "done"}
    /\ \E i \in partStaff : \E d \in Days :
          /\ allAssignments[i][d] = PART
          /\ getWeekWorkDays(allAssignments[i], d) > MaxPerWeek(staffList[i])
    /\ \E i \in fullStaff : \E d \in Days : allAssignments[i][d] \in {EARLY, LATE}

====
